---- MODULE Spec2Model ----
(***************************************************************************)
(* The memory layer of zestify: the per-user component store              *)
(* (backend/memory/manager.py, MemoryManager) and the record schema        *)
(* (backend/memory/schemas.py, OverallMemory and its components).          *)
(*                                                                         *)
(* JSON values are tagged records:                                         *)
(*   [t |-> "null"]            None / null                                 *)
(*   [t |-> "str", s |-> ..]   a string                                    *)
(*   [t |-> "dt",  n |-> k]    a datetime object (instant k of the clock)  *)
(*   [t |-> "iso", n |-> k]    the ISO-8601 string of instant k            *)
(*   [t |-> "obj", o |-> f]    a dict, f a function from keys to values    *)
(*   [t |-> "list", l |-> q]   a list                                      *)
(* A stored file is the JSON text of such a value (no "dt" inside), the    *)
(* unparsable text Garbage, or Absent.                                     *)
(***************************************************************************)
EXTENDS Integers, Sequences, FiniteSets, TLC

VARIABLES dirExists, files, mem, clock, last, pure, sessions

vars == <<dirExists, files, mem, clock, last, pure, sessions>>

-----------------------------------------------------------------------------
(* JSON values *)

JNull == [t |-> "null"]
JStr(s) == [t |-> "str", s |-> s]
JDt(n) == [t |-> "dt", n |-> n]
JIso(n) == [t |-> "iso", n |-> n]
JObj(f) == [t |-> "obj", o |-> f]
JList(q) == [t |-> "list", l |-> q]
EmptyObj == JObj([k \in {} |-> JNull])
EmptyList == JList(<<>>)

Absent == [t |-> "absent"]
Garbage == [t |-> "garbage"]
Invalid == [t |-> "invalid"]
Raised == [t |-> "raised"]

IsObj(v) == v.t = "obj"
IsList(v) == v.t = "list"
HasKey(v, k) == IsObj(v) /\ k \in DOMAIN v.o

\* dict.get(k): the value, or None when the key is missing
Get(v, k) == IF HasKey(v, k) THEN v.o[k] ELSE JNull

\* d[k] = x on a dict
SetKey(v, k, x) ==
    JObj([j \in (DOMAIN v.o) \cup {k} |-> IF j = k THEN x ELSE v.o[j]])

\* del d[k] on a dict
DelKey(v, k) == JObj([j \in (DOMAIN v.o) \ {k} |-> v.o[j]])

\* Python truthiness of a JSON value
Truthy(v) ==
    CASE v.t = "null" -> FALSE
      [] v.t = "str" -> v.s # ""
      [] v.t = "obj" -> DOMAIN v.o # {}
      [] v.t = "list" -> Len(v.l) > 0
      [] OTHER -> TRUE

\* json.dump(value, default=json_serial): datetimes become ISO strings
RECURSIVE json_serial(_)
json_serial(v) ==
    CASE v.t = "dt" -> JIso(v.n)
      [] v.t = "obj" -> JObj([k \in DOMAIN v.o |-> json_serial(v.o[k])])
      [] v.t = "list" -> JList([i \in 1..Len(v.l) |-> json_serial(v.l[i])])
      [] OTHER -> v

-----------------------------------------------------------------------------
(* The record schema: pydantic models as field tables *)

K(k, m) == [k |-> k, m |-> m]
Req(kind) == [kind |-> kind, req |-> TRUE, def |-> Invalid]
Opt(kind, d) == [kind |-> kind, req |-> FALSE, def |-> d]
Factory == [t |-> "factory"]

UserInfo ==
    [user_id |-> Req(K("str", "")),
     created_at |-> Req(K("dt", "")),
     updated_at |-> Req(K("dt", ""))]

UserProfile ==
    [user_id |-> Req(K("str", "")),
     name |-> Opt(K("optstr", ""), JNull),
     created_at |-> Req(K("dt", "")),
     updated_at |-> Req(K("dt", ""))]

RecentWorkout ==
    [workout_type |-> Opt(K("optstr", ""), JNull),
     original_type |-> Opt(K("optstr", ""), JNull)]

WorkoutMemory ==
    [user_id |-> Req(K("str", "")),
     last_updated |-> Req(K("dt", "")),
     recent_workouts |-> Opt(K("listmodel", "RecentWorkout"), EmptyList)]

Activity == [date |-> Req(K("dt", ""))]

Activities == [activities |-> Opt(K("listmodel", "Activity"), EmptyList)]

BodyComposition ==
    [weight |-> Opt(K("optdict", ""), JNull),
     weight_readings |-> Opt(K("listdict", ""), EmptyList)]

Biometrics ==
    [body_composition |-> Opt(K("model", "BodyComposition"), Factory)]

WorkoutPlan ==
    [name |-> Opt(K("optstr", ""), JNull),
     updated_at |-> Opt(K("optdt", ""), JNull)]

ChatHistory ==
    [conversations |-> Opt(K("listdict", ""), EmptyList),
     last_interaction |-> Opt(K("optdt", ""), JNull)]

OverallMemory ==
    [user_info |-> Opt(K("optmodel", "UserInfo"), JNull),
     user_profile |-> Opt(K("optmodel", "UserProfile"), JNull),
     workout_memory |-> Opt(K("model", "WorkoutMemory"), Factory),
     activities |-> Opt(K("model", "Activities"), Factory),
     biometrics |-> Opt(K("model", "Biometrics"), Factory),
     workout_plan |-> Opt(K("model", "WorkoutPlan"), Factory),
     chat_history |-> Opt(K("model", "ChatHistory"), Factory)]

Fields(m) ==
    CASE m = "UserInfo" -> UserInfo
      [] m = "UserProfile" -> UserProfile
      [] m = "RecentWorkout" -> RecentWorkout
      [] m = "WorkoutMemory" -> WorkoutMemory
      [] m = "Activity" -> Activity
      [] m = "Activities" -> Activities
      [] m = "BodyComposition" -> BodyComposition
      [] m = "Biometrics" -> Biometrics
      [] m = "WorkoutPlan" -> WorkoutPlan
      [] m = "ChatHistory" -> ChatHistory
      [] m = "OverallMemory" -> OverallMemory

\* The top-level keys of the aggregate: one stored record (<key>.json) each
TopKeys == DOMAIN OverallMemory

\* The six components the selective save knows
Components ==
    {"user_profile", "workout_memory", "biometrics", "activities",
     "workout_plan", "chat_history"}

-----------------------------------------------------------------------------
(* Validation: model_validate *)

\* d[k] = x unless the key is there
SetDefault(v, k, x) == IF HasKey(v, k) THEN v ELSE SetKey(v, k, x)

\* values['workout_type'] = values.get('original_type', 'Other') when the
\* workout_type is None
DefaultWorkoutType(values) ==
    IF Get(values, "workout_type") = JNull
    THEN SetKey(values, "workout_type",
                IF HasKey(values, "original_type") THEN values.o["original_type"]
                ELSE JStr("Other"))
    ELSE values

\* RecentWorkout's pre root validator (the type fields)
process_incoming_workout_data(values) ==
    DefaultWorkoutType(
        IF Get(values, "original_type") = JNull /\ Get(values, "workout_type") # JNull
        THEN SetKey(values, "original_type", Get(values, "workout_type"))
        ELSE values)

\* The keys whose bare-list shape the aggregate's validator wraps
LegacyListKeys ==
    <<"activities", "biometrics", "workout_memory", "chat_history", "workout_plan">>

WrapList(values, key) ==
    IF HasKey(values, key) /\ IsList(values.o[key])
    THEN SetKey(values, key, JObj([j \in {key} |-> values.o[key]]))
    ELSE values

RECURSIVE WrapLists(_, _)
WrapLists(values, keys) ==
    IF keys = <<>> THEN values
    ELSE WrapLists(WrapList(values, Head(keys)), Tail(keys))

\* The user id the aggregate's validator settles on: the profile's, else
\* user_info's, else the one passed by the caller
ResolveUserId(values) ==
    IF Truthy(Get(values, "user_profile")) /\ IsObj(Get(values, "user_profile"))
       /\ Truthy(Get(Get(values, "user_profile"), "user_id"))
    THEN Get(values, "user_profile").o["user_id"]
    ELSE IF Truthy(Get(values, "user_info")) /\ IsObj(Get(values, "user_info"))
            /\ Truthy(Get(Get(values, "user_info"), "user_id"))
    THEN Get(values, "user_info").o["user_id"]
    ELSE IF Truthy(Get(values, "_passed_user_id")) THEN Get(values, "_passed_user_id")
    ELSE JNull

\* values['user_profile'] as the validator leaves it
EnsureProfile(user_profile_data, user_id, now) ==
    IF Truthy(user_profile_data) /\ IsObj(user_profile_data)
    THEN SetDefault(
            SetDefault(
                IF Truthy(user_id) THEN SetDefault(user_profile_data, "user_id", user_id)
                ELSE user_profile_data,
                "created_at", JDt(now)),
            "updated_at", JDt(now))
    ELSE IF user_profile_data = JNull /\ Truthy(user_id)
    THEN JObj([user_id |-> user_id, created_at |-> JDt(now), updated_at |-> JDt(now)])
    ELSE user_profile_data

\* values['workout_memory'] as the validator leaves it
EnsureWorkoutMemory(values, user_id, now) ==
    IF ~HasKey(values, "workout_memory") /\ Truthy(user_id)
    THEN SetKey(values, "workout_memory",
                JObj([user_id |-> user_id, last_updated |-> JDt(now)]))
    ELSE IF HasKey(values, "workout_memory") /\ IsObj(values.o["workout_memory"])
    THEN SetKey(values, "workout_memory",
                SetDefault(
                    IF Truthy(user_id)
                    THEN SetDefault(values.o["workout_memory"], "user_id", user_id)
                    ELSE values.o["workout_memory"],
                    "last_updated", JDt(now)))
    ELSE values

DropPassedUserId(values) ==
    IF HasKey(values, "_passed_user_id") THEN DelKey(values, "_passed_user_id")
    ELSE values

\* OverallMemory's pre root validator
ensure_user_profile_and_defaults(values, now) ==
    DropPassedUserId(
        EnsureWorkoutMemory(
            SetKey(WrapLists(values, LegacyListKeys), "user_profile",
                   EnsureProfile(Get(values, "user_profile"), ResolveUserId(values), now)),
            ResolveUserId(values), now))

\* The validated fields as an instance, or Invalid when one of them failed
Collect(r) == IF \E k \in DOMAIN r : r[k] = Invalid THEN Invalid ELSE JObj(r)

CollectList(q) ==
    IF \E i \in 1..Len(q) : q[i] = Invalid THEN Invalid ELSE JList(q)

\* A model's pre root validator, where it has one
PreValidate(m, v, now) ==
    CASE m = "RecentWorkout" -> process_incoming_workout_data(v)
      [] m = "OverallMemory" -> ensure_user_profile_and_defaults(v, now)
      [] OTHER -> v

RECURSIVE ValidateKind(_, _, _), ValidateModel(_, _, _)

\* One field's validation: the validated value, or Invalid
ValidateKind(kind, v, now) ==
    CASE kind.k = "str" -> IF v.t = "str" THEN v ELSE Invalid
      [] kind.k = "optstr" -> IF v.t \in {"str", "null"} THEN v ELSE Invalid
      [] kind.k = "dt" ->
            IF v.t = "dt" THEN v ELSE IF v.t = "iso" THEN JDt(v.n) ELSE Invalid
      [] kind.k = "optdt" ->
            IF v.t \in {"dt", "null"} THEN v
            ELSE IF v.t = "iso" THEN JDt(v.n) ELSE Invalid
      [] kind.k = "optdict" -> IF v.t \in {"obj", "null"} THEN v ELSE Invalid
      [] kind.k = "listdict" ->
            IF IsList(v) /\ \A i \in 1..Len(v.l) : IsObj(v.l[i]) THEN v ELSE Invalid
      [] kind.k \in {"model", "optmodel"} ->
            IF kind.k = "optmodel" /\ v = JNull THEN v
            ELSE ValidateModel(kind.m, v, now)
      [] kind.k = "listmodel" ->
            IF ~IsList(v) THEN Invalid
            ELSE CollectList([i \in 1..Len(v.l) |-> ValidateKind(K("model", kind.m), v.l[i], now)])

\* One field of a model from the (pre-validated) input: the given value
\* validated, or the field's default; a missing required field fails
ValidateField(field, pre, k, now) ==
    IF HasKey(pre, k) THEN ValidateKind(field.kind, pre.o[k], now)
    ELSE IF field.req THEN Invalid
    ELSE IF field.def = Factory THEN ValidateKind(field.kind, EmptyObj, now)
    ELSE field.def

ValidateFields(F, pre, now) ==
    Collect([k \in DOMAIN F |-> ValidateField(F[k], pre, k, now)])

\* Model.model_validate(v): the validated instance (as its model_dump), or
\* Invalid when validation raises
ValidateModel(m, v, now) ==
    IF ~IsObj(v) THEN Invalid
    ELSE ValidateFields(Fields(m), PreValidate(m, v, now), now)

model_validate(v, now) == ValidateModel("OverallMemory", v, now)

-----------------------------------------------------------------------------
(* The component store: load *)

\* This user's identifier
UserId == JStr("u1")

PassedOnly == JObj([j \in {"_passed_user_id"} |-> UserId])

\* from_user_dir's pass over workout_memory.json: a workout whose
\* workout_type is not 'Other' gets original_type := workout_type
FixWorkout(w) ==
    IF HasKey(w, "workout_type") /\ w.o["workout_type"] # JStr("Other")
    THEN SetKey(w, "original_type", w.o["workout_type"])
    ELSE w

FixWorkouts(data, rw) ==
    IF rw.t = "null" THEN Raised
    ELSE IF ~IsList(rw) THEN data
    ELSE IF \E i \in 1..Len(rw.l) : rw.l[i].t = "null" THEN Raised
    ELSE SetKey(data, "recent_workouts",
                JList([i \in 1..Len(rw.l) |->
                         IF IsObj(rw.l[i]) THEN FixWorkout(rw.l[i]) ELSE rw.l[i]]))

\* data['body_composition'] / data['vital_signs'] default to {} unless dicts
EnsureDict(data, k) ==
    IF ~HasKey(data, k) \/ ~IsObj(data.o[k]) THEN SetKey(data, k, EmptyObj) ELSE data

\* The legacy weight history copied to data['weight_readings'];
\* bc_data.get('weight', {}).get('history') raises unless weight is a dict
MigrateWeight(data, weight) ==
    IF ~IsObj(weight) THEN Raised
    ELSE IF IsList(Get(weight, "history")) /\ Truthy(Get(weight, "history"))
            /\ ~Truthy(Get(data, "weight_readings"))
    THEN IF \E i \in 1..Len(weight.o["history"].l) : ~IsObj(weight.o["history"].l[i])
         THEN Raised
         ELSE SetKey(data, "weight_readings", weight.o["history"])
    ELSE data

MigrateBiometrics(data) ==
    MigrateWeight(data,
                  IF HasKey(data.o["body_composition"], "weight")
                  THEN data.o["body_composition"].o["weight"]
                  ELSE EmptyObj)

\* What from_user_dir keeps of one parsed file: the component's data, or
\* Raised when its handling raises (the file is then skipped)
ReadComponent(name, data) ==
    IF data = Garbage THEN Raised
    ELSE IF name = "workout_memory"
    THEN IF data.t = "null" THEN Raised
         ELSE IF HasKey(data, "recent_workouts")
         THEN FixWorkouts(data, data.o["recent_workouts"])
         ELSE data
    ELSE IF name = "biometrics"
    THEN IF ~IsObj(data) THEN Raised
         ELSE MigrateBiometrics(EnsureDict(EnsureDict(data, "body_composition"),
                                           "vital_signs"))
    ELSE data

\* memory_components: the files read and kept, and the caller's user id
MemoryComponents(read) ==
    JObj([k \in {f \in DOMAIN read : read[f] # Raised} \cup {"_passed_user_id"} |->
            IF k = "_passed_user_id" THEN UserId ELSE read[k]])

\* validated_memory, or the default aggregate when validation raises
OrDefault(validated_memory, now) ==
    IF validated_memory = Invalid THEN model_validate(PassedOnly, now)
    ELSE validated_memory

\* OverallMemory.from_user_dir(user_dir, user_id): the aggregate load_memory
\* returns (as its model_dump)
from_user_dir(dir, fs, now) ==
    IF ~dir \/ \A f \in DOMAIN fs : fs[f] = Absent
    THEN OrDefault(Invalid, now)
    ELSE OrDefault(
            model_validate(
                MemoryComponents([f \in {g \in DOMAIN fs : fs[g] # Absent} |->
                                    ReadComponent(f, fs[f])]),
                now),
            now)

load_memory(dir, fs, now) == from_user_dir(dir, fs, now)

-----------------------------------------------------------------------------
(* The component store: save *)

\* memory.model_dump(): the aggregate is held as its dump
model_dump(memory) == memory

\* save_memory(memory): every top-level key is written to <key>.json; the
\* open() raises when the directory is missing
save_memory(dir, fs, memory) ==
    IF ~dir THEN fs
    ELSE [f \in DOMAIN fs |->
            IF f \in DOMAIN model_dump(memory).o
            THEN json_serial(model_dump(memory).o[f])
            ELSE fs[f]]

\* The timestamp _save_updated_components sets on a component's dump
Stamp(component, component_data, now) ==
    CASE component = "user_profile" -> SetKey(component_data, "updated_at", JDt(now))
      [] component = "workout_memory" -> SetKey(component_data, "last_updated", JDt(now))
      [] component = "workout_plan" ->
            IF HasKey(component_data, "updated_at")
            THEN SetKey(component_data, "updated_at", JDt(now))
            ELSE component_data
      [] component = "chat_history" ->
            SetKey(component_data, "last_interaction", JDt(now))
      [] OTHER -> component_data

\* _save_updated_components writing every component, named or not
save_all_components(dir, fs, memory, component_names, now) ==
    IF ~Truthy(Get(memory, "user_info"))
       \/ ~Truthy(Get(memory.o["user_info"], "user_id"))
    THEN fs
    ELSE [f \in DOMAIN fs |->
            IF f \in Components /\ Get(memory, f) # JNull /\ dir
            THEN json_serial(Stamp(f, model_dump(memory.o[f]), now))
            ELSE fs[f]]

\* _save_updated_components(memory, component_names): the files afterwards
\* (an error writing one component is logged and the loop goes on)
save_updated_components(dir, fs, memory, component_names, now) ==
    IF ~Truthy(Get(memory, "user_info"))
       \/ ~Truthy(Get(memory.o["user_info"], "user_id"))
    THEN fs
    ELSE [f \in DOMAIN fs |->
            IF f \in component_names /\ f \in Components
               /\ Get(memory, f) # JNull /\ dir
            THEN json_serial(Stamp(f, model_dump(memory.o[f]), now))
            ELSE fs[f]]

-----------------------------------------------------------------------------
(* The patch engine: merge patch *)

\* MemoryManager._merge_patch(target, patch): a None value pops the key, a
\* dict value is merged into a dict target value, anything else is assigned
RECURSIVE merge_patch(_, _)
merge_patch(target, patch) ==
    JObj([k \in ((DOMAIN target.o) \ {j \in DOMAIN patch.o : patch.o[j] = JNull})
                \cup {j \in DOMAIN patch.o : patch.o[j] # JNull} |->
            IF k \notin DOMAIN patch.o THEN target.o[k]
            ELSE IF IsObj(patch.o[k]) /\ IsObj(Get(target, k))
            THEN merge_patch(target.o[k], patch.o[k])
            ELSE patch.o[k]])

\* update_memory(memory, patch, patch_format="merge")
update_memory(memory, patch) == merge_patch(memory, patch)

-----------------------------------------------------------------------------
(* The patch engine: RFC 6902 JSON Patch *)

\* A path is the sequence of its tokens; "/" is the separator, every other
\* token a run of characters without "/".  str.split('/'):
RECURSIVE split(_)
split(path) ==
    IF path = <<>> THEN << <<>> >>
    ELSE IF Head(path) = "/" THEN << <<>> >> \o split(Tail(path))
    ELSE LET r == split(Tail(path))
         IN  << <<Head(path)>> \o r[1] >> \o Tail(r)

\* The dict key (or list index text) a path segment spells
SegKey(seg) ==
    IF seg = <<>> THEN "" ELSE IF Len(seg) = 1 THEN seg[1] ELSE "<other>"

PatchError == [t |-> "patch_error"]
IsErr(v) == v.t = "patch_error"

\* JsonPointer(path).parts: the keys, or PatchError unless the path is
\* empty or starts with "/"
PointerParts(path) ==
    IF path = <<>> THEN [ok |-> TRUE, parts |-> <<>>]
    ELSE IF Head(path) # "/" THEN [ok |-> FALSE, parts |-> <<>>]
    ELSE LET segs == Tail(split(path))
         IN  [ok |-> TRUE, parts |-> [i \in 1..Len(segs) |-> SegKey(segs[i])]]

IndexOf(key) ==
    CASE key = "0" -> 0 [] key = "1" -> 1 [] key = "2" -> 2 [] key = "3" -> 3
      [] OTHER -> -1

\* The member of v that key addresses, or PatchError
Member(v, key) ==
    IF IsObj(v) THEN IF key \in DOMAIN v.o THEN v.o[key] ELSE PatchError
    ELSE IF IsList(v)
    THEN IF IndexOf(key) >= 0 /\ IndexOf(key) < Len(v.l) THEN v.l[IndexOf(key) + 1]
         ELSE PatchError
    ELSE PatchError

RECURSIVE Resolve(_, _)
Resolve(v, parts) ==
    IF parts = <<>> THEN v
    ELSE LET c == Member(v, Head(parts))
         IN  IF IsErr(c) THEN PatchError ELSE Resolve(c, Tail(parts))

\* v with its member at key set to x (the member exists)
SetMember(v, key, x) ==
    IF IsObj(v) THEN SetKey(v, key, x)
    ELSE JList([i \in 1..Len(v.l) |-> IF i = IndexOf(key) + 1 THEN x ELSE v.l[i]])

\* add / remove / replace at the last part of a pointer
Leaf(v, kind, key, x) ==
    IF IsObj(v)
    THEN CASE kind = "add" -> SetKey(v, key, x)
           [] kind = "remove" -> IF key \in DOMAIN v.o THEN DelKey(v, key) ELSE PatchError
           [] kind = "replace" -> IF key \in DOMAIN v.o THEN SetKey(v, key, x) ELSE PatchError
    ELSE IF IsList(v)
    THEN LET i == IndexOf(key)
             n == Len(v.l)
         IN  CASE kind = "add" ->
                    IF key = "-" THEN JList(Append(v.l, x))
                    ELSE IF i >= 0 /\ i <= n
                    THEN JList(SubSeq(v.l, 1, i) \o <<x>> \o SubSeq(v.l, i + 1, n))
                    ELSE PatchError
               [] kind = "remove" ->
                    IF i >= 0 /\ i < n
                    THEN JList(SubSeq(v.l, 1, i) \o SubSeq(v.l, i + 2, n))
                    ELSE PatchError
               [] kind = "replace" ->
                    IF i >= 0 /\ i < n THEN SetMember(v, key, x) ELSE PatchError
    ELSE PatchError

RECURSIVE Modify(_, _, _, _)
Modify(v, parts, kind, x) ==
    IF parts = <<>> THEN IF kind = "remove" THEN PatchError ELSE x
    ELSE IF Len(parts) = 1 THEN Leaf(v, kind, parts[1], x)
    ELSE LET c == Member(v, Head(parts))
         IN  IF IsErr(c) THEN PatchError
             ELSE LET r == Modify(c, Tail(parts), kind, x)
                  IN  IF IsErr(r) THEN PatchError ELSE SetMember(v, Head(parts), r)

\* ApplyOp with a conflict taken as "nothing to do": only an add changes the
\* document, any other operation leaves it as it is
ApplyOpLenient(doc, op) ==
    IF ~PointerParts(op.path).ok THEN PatchError
    ELSE IF op.op = "add"
    THEN Modify(doc, PointerParts(op.path).parts, "add", op.value)
    ELSE doc

\* One operation of a patch applied to a document: the new document, or
\* PatchError (JsonPatchConflict, JsonPatchTestFailed, JsonPointerException)
ApplyOp(doc, op) ==
    LET p == PointerParts(op.path)
        f == PointerParts(op.from)
    IN  IF ~p.ok THEN PatchError
        ELSE CASE op.op \in {"add", "remove", "replace"} ->
                    Modify(doc, p.parts, op.op, op.value)
               [] op.op = "test" ->
                    IF Resolve(doc, p.parts) = op.value THEN doc ELSE PatchError
               [] op.op \in {"move", "copy"} ->
                    IF ~f.ok THEN PatchError
                    ELSE LET val == Resolve(doc, f.parts)
                             d1 == IF op.op = "move"
                                   THEN Modify(doc, f.parts, "remove", JNull)
                                   ELSE doc
                         IN  IF IsErr(val) \/ IsErr(d1) THEN PatchError
                             ELSE Modify(d1, p.parts, "add", val)
               [] OTHER -> PatchError

\* jsonpatch.JsonPatch(patch).apply(doc): the operations in order on a copy
RECURSIVE JsonPatchApply(_, _)
JsonPatchApply(doc, patch) ==
    IF patch = <<>> THEN doc
    ELSE LET d == ApplyOp(doc, Head(patch))
         IN  IF IsErr(d) THEN PatchError ELSE JsonPatchApply(d, Tail(patch))

\* _identify_modified_components marking workout_memory modified by every
\* operation, whatever its path
OpComponentAndWorkouts(op) ==
    LET path_parts == split(op.path)
    IN  IF Len(path_parts) >= 2 /\ path_parts[2] # <<>>
           /\ Len(path_parts[2]) = 1 /\ path_parts[2][1] \in Components
        THEN {path_parts[2][1], "workout_memory"}
        ELSE {"workout_memory"}

\* _identify_modified_components reading the first segment instead
OpComponentFirst(op) ==
    LET path_parts == split(op.path)
    IN  IF Len(path_parts) >= 2 /\ path_parts[1] # <<>>
           /\ Len(path_parts[1]) = 1 /\ path_parts[1][1] \in Components
        THEN {path_parts[1][1]}
        ELSE {}

\* The component an operation's path names: the segment after the first "/"
OpComponent(op) ==
    LET path_parts == split(op.path)
    IN  IF Len(path_parts) >= 2 /\ path_parts[2] # <<>>
           /\ Len(path_parts[2]) = 1 /\ path_parts[2][1] \in Components
        THEN {path_parts[2][1]}
        ELSE {}

\* _identify_modified_components(patch)
identify_modified_components(patch) ==
    UNION {OpComponent(patch[i]) : i \in 1..Len(patch)}

None == [t |-> "none"]

\* What a call yields: the value returned, the files and the caller's
\* aggregate afterwards, and the components it identified as modified
Outcome(ret, fs, memory, names) ==
    [ret |-> ret, files |-> fs, mem |-> memory, names |-> names]

\* apply_json_patch saving the modified components of the patched dict
\* before it is validated
SaveThenValidate(dir, fs, memory, patched, updated_memory, names, now) ==
    IF IsErr(patched) THEN Outcome(None, fs, memory, {})
    ELSE IF updated_memory = Invalid
    THEN Outcome(None,
                 save_updated_components(dir, fs, patched, names, now),
                 memory, {})
    ELSE Outcome(updated_memory,
                 save_updated_components(dir, fs, updated_memory, names, now),
                 memory, names)

\* The tail of apply_json_patch's try block: the patched dict is validated,
\* the modified components are saved and the updated aggregate is returned;
\* a conflict or a validation error is caught and None is returned
ValidateAndSave(dir, fs, memory, patched, updated_memory, names, now) ==
    IF IsErr(patched) \/ updated_memory = Invalid
    THEN Outcome(None, fs, memory, {})
    ELSE Outcome(updated_memory,
                 save_updated_components(dir, fs, updated_memory, names, now),
                 memory, names)

Validated(patched_memory_dict, now) ==
    IF IsErr(patched_memory_dict) THEN Invalid
    ELSE model_validate(patched_memory_dict, now)

PatchAndSave(dir, fs, memory, patch, patched_memory_dict, now) ==
    ValidateAndSave(dir, fs, memory, patched_memory_dict,
                    Validated(patched_memory_dict, now),
                    identify_modified_components(patch), now)

\* apply_json_patch(memory, patch)
apply_json_patch(dir, fs, memory, patch, now) ==
    IF patch = <<>> THEN Outcome(None, fs, memory, {})
    ELSE PatchAndSave(dir, fs, memory, patch,
                      JsonPatchApply(model_dump(memory), patch), now)

-----------------------------------------------------------------------------
(* The store as a state machine: one user, one session *)

\* Bounds of the model: the stamping operations of one run, and the
\* operations of one patch
MaxClock == 1
MaxOps == 2

Obj1(k, x) == JObj([j \in {k} |-> x])

\* The token sequence of the path "/s1/s2/..."
RECURSIVE PathOf(_)
PathOf(segs) ==
    IF segs = <<>> THEN <<>> ELSE <<"/", Head(segs)>> \o PathOf(Tail(segs))

Op(o, segs, x) == [op |-> o, path |-> PathOf(segs), value |-> x, from |-> <<>>]

AddWorkout ==
    Op("add", <<"workout_memory", "recent_workouts", "-">>,
       Obj1("workout_type", JStr("Run")))
AddWeight ==
    Op("add", <<"biometrics", "body_composition", "weight_readings", "-">>,
       Obj1("value", JStr("70")))

\* The operations a collaborator's patch is made of: a valid addition, a
\* replacement the schema rejects, and three that name no existing path
BadReplace == Op("replace", <<"workout_memory", "recent_workouts">>, JStr("x"))
RemoveMissing == Op("remove", <<"activities", "nosuch">>, JNull)
ReplaceMissing == Op("replace", <<"chat_history", "nosuch">>, JStr("x"))
TestMissing == Op("test", <<"workout_plan", "nosuch">>, JStr("x"))

PatchOps == {AddWorkout, BadReplace, RemoveMissing, ReplaceMissing, TestMissing}

RECURSIVE SeqsUpTo(_, _)
SeqsUpTo(S, n) ==
    IF n = 0 THEN {<<>>}
    ELSE LET shorter == SeqsUpTo(S, n - 1)
         IN  shorter \cup {Append(q, x) : q \in shorter, x \in S}

Patches == SeqsUpTo(PatchOps, MaxOps)

\* The component lists a caller hands to _save_updated_components
SaveNames ==
    {{}, {"workout_memory", "biometrics"}, Components} \cup {{c} : c \in Components}

NoFiles == [f \in TopKeys |-> Absent]
NoPure == [k |-> "none"]
NoSessions == <<>>

\* user_info.json as ensure_user_exists writes it
UserInfoRecord(now) ==
    JObj([user_id |-> UserId, created_at |-> JIso(now), updated_at |-> JIso(now)])

\* The records of a user an earlier session left: created by a handler,
\* then one patch adding a workout and a weight reading
SeededFiles ==
    LET fs == [NoFiles EXCEPT !["user_info"] = UserInfoRecord(0)]
    IN  apply_json_patch(TRUE, fs, load_memory(TRUE, fs, 0),
                         <<AddWorkout, AddWeight>>, 0).files

\* What the last operation was and what it started from
Last(op, patch, names, ret, now) ==
    [op |-> op, patch |-> patch, names |-> names, ret |-> ret,
     filesBefore |-> files, memBefore |-> mem, dirBefore |-> dirExists,
     now |-> now]

NoLast ==
    [op |-> "init", patch |-> <<>>, names |-> {}, ret |-> None,
     filesBefore |-> NoFiles, memBefore |-> None, dirBefore |-> FALSE, now |-> 0]

\* A new user (no directory), or a user with stored records
Init ==
    /\ \/ dirExists = FALSE /\ files = NoFiles
       \/ dirExists = TRUE /\ files = SeededFiles
    /\ mem = None
    /\ clock = 0
    /\ last = NoLast
    /\ pure = NoPure
    /\ sessions = NoSessions

\* MemoryManager(user_id): the user directory is created when missing
Construct ==
    /\ ~dirExists
    /\ dirExists' = TRUE
    /\ last' = Last("construct", <<>>, {}, None, clock)
    /\ UNCHANGED <<files, mem, clock, pure, sessions>>

\* BaseHandler.ensure_user_exists(user_id): directory and user_info.json
EnsureUserExists ==
    /\ files["user_info"] = Absent
    /\ dirExists' = TRUE
    /\ files' = [files EXCEPT !["user_info"] = UserInfoRecord(clock)]
    /\ last' = Last("ensure_user_exists", <<>>, {}, None, clock)
    /\ UNCHANGED <<mem, clock, pure, sessions>>

\* memory = manager.load_memory()
LoadMemory ==
    /\ mem' = load_memory(dirExists, files, clock)
    /\ last' = Last("load_memory", <<>>, {}, None, clock)
    /\ UNCHANGED <<dirExists, files, clock, pure, sessions>>

\* manager.apply_json_patch(memory, patch)
ApplyJsonPatch ==
    /\ clock < MaxClock
    /\ mem # None
    /\ \E patch \in Patches :
         LET r == apply_json_patch(dirExists, files, mem, patch, clock + 1)
         IN  /\ files' = r.files
             /\ mem' = r.mem
             /\ last' = Last("apply_json_patch", patch, r.names, r.ret, clock + 1)
    /\ clock' = clock + 1
    /\ UNCHANGED <<dirExists, pure, sessions>>

\* manager._save_updated_components(memory, component_names)
SaveUpdatedComponents ==
    /\ clock < MaxClock
    /\ mem # None
    /\ \E names \in SaveNames :
         /\ files' = save_updated_components(dirExists, files, mem, names, clock + 1)
         /\ last' = Last("save_updated_components", <<>>, names, None, clock + 1)
    /\ clock' = clock + 1
    /\ UNCHANGED <<dirExists, mem, pure, sessions>>

\* manager.save_memory(memory)
SaveMemory ==
    /\ mem # None
    /\ dirExists
    /\ files' = save_memory(dirExists, files, mem)
    /\ last' = Last("save_memory", <<>>, {}, None, clock)
    /\ UNCHANGED <<dirExists, mem, clock, pure, sessions>>

Next ==
    \/ Construct
    \/ EnsureUserExists
    \/ LoadMemory
    \/ ApplyJsonPatch
    \/ SaveUpdatedComponents
    \/ SaveMemory

Spec == Init /\ [][Next]_vars

-----------------------------------------------------------------------------
(* Loading and saving over the records a user directory can hold *)

Reading == Obj1("value", JStr("70"))

StoredUserProfile ==
    JObj([user_id |-> UserId, name |-> JStr("Ann"),
          created_at |-> JIso(0), updated_at |-> JIso(0)])

StoredWorkouts(w) ==
    JObj([user_id |-> UserId, last_updated |-> JIso(0), recent_workouts |-> w])

\* workout_memory.json: a workout stored under a normalised type with its
\* original one, a workout stored without either, a record the schema
\* rejects, a file that does not parse
StoredWorkoutMemory ==
    {Absent,
     StoredWorkouts(JList(<<JObj([workout_type |-> JStr("Run"),
                                  original_type |-> JStr("Jog")])>>)),
     StoredWorkouts(JList(<<EmptyObj>>)),
     StoredWorkouts(JStr("x")),
     Garbage}

\* activities.json: the record, the legacy bare list, a record the schema
\* rejects
StoredActivities ==
    {Absent,
     Obj1("activities", JList(<<Obj1("date", JIso(0))>>)),
     JList(<<Obj1("date", JIso(0))>>),
     Obj1("activities", JStr("x"))}

\* biometrics.json: written without the legacy weight summary, and as
\* model_dump writes it (weight: null)
StoredBiometrics ==
    {Absent,
     Obj1("body_composition", Obj1("weight_readings", JList(<<Reading>>))),
     Obj1("body_composition",
          JObj([weight |-> JNull, weight_readings |-> JList(<<Reading>>)]))}

StoredWorkoutPlan == {Absent, JObj([name |-> JStr("P"), updated_at |-> JNull])}

StoredChatHistory ==
    {Absent,
     JObj([conversations |-> JList(<<Obj1("role", JStr("user"))>>),
           last_interaction |-> JNull]),
     Garbage}

StoredDirs ==
    {[user_info |-> ui, user_profile |-> up, workout_memory |-> wm, activities |-> ac,
      biometrics |-> bi, workout_plan |-> wp, chat_history |-> ch] :
        ui \in {Absent, UserInfoRecord(0)}, up \in {Absent, StoredUserProfile},
        wm \in StoredWorkoutMemory, ac \in StoredActivities, bi \in StoredBiometrics,
        wp \in StoredWorkoutPlan, ch \in StoredChatHistory}

InitLoad ==
    /\ \/ dirExists = FALSE /\ files = NoFiles
       \/ dirExists = TRUE /\ files \in StoredDirs
    /\ mem = None
    /\ clock = 0
    /\ last = NoLast
    /\ pure = NoPure
    /\ sessions = NoSessions

\* manager.save(): load_memory, then save_memory of what it returned
Save ==
    /\ dirExists
    /\ files' = save_memory(dirExists, files, load_memory(dirExists, files, clock))
    /\ last' = Last("save", <<>>, {}, None, clock)
    /\ UNCHANGED <<dirExists, mem, clock, pure, sessions>>

NextLoad ==
    \/ LoadMemory
    \/ SaveMemory
    \/ Save

SpecLoad == InitLoad /\ [][NextLoad]_vars

-----------------------------------------------------------------------------
(* update_memory over small dictionaries *)

MergeKeys == {"a", "b"}

\* The dicts over MergeKeys with values in vals
DictsOver(vals) ==
    {JObj(f) : f \in UNION {[D -> vals] : D \in SUBSET MergeKeys}}

\* Targets hold strings and dicts of strings; patches also hold nulls
Targets == DictsOver({JStr("x")} \cup DictsOver({JStr("x")}))
MergePatches == DictsOver({JNull, JStr("y")} \cup DictsOver({JNull, JStr("y")}))

InitMerge ==
    /\ dirExists = FALSE
    /\ files = NoFiles
    /\ mem = None
    /\ clock = 0
    /\ last = NoLast
    /\ sessions = NoSessions
    /\ pure \in {[k |-> "merge_in", target |-> A, patch |-> P] :
                    A \in Targets, P \in MergePatches}

\* manager.update_memory(A, P)
UpdateMemory ==
    /\ pure.k = "merge_in"
    /\ pure' = [k |-> "merge", target |-> pure.target, patch |-> pure.patch,
                result |-> update_memory(pure.target, pure.patch)]
    /\ UNCHANGED <<dirExists, files, mem, clock, last, sessions>>

NextMerge == UpdateMemory

SpecMerge == InitMerge /\ [][NextMerge]_vars

-----------------------------------------------------------------------------
(* _identify_modified_components over op lists *)

\* Paths an operation can carry: into each component, into user_info, into
\* an unknown key, and the degenerate ones ('', '/', '//workout_memory',
\* 'workout_memory/x', 'x/workout_memory')
IdentifyPaths ==
    {AddWorkout.path, AddWeight.path,
     PathOf(<<"user_profile", "name">>), PathOf(<<"activities">>),
     PathOf(<<"workout_plan", "name">>), PathOf(<<"chat_history", "conversations", "-">>),
     PathOf(<<"user_info", "user_id">>), PathOf(<<"unknown", "x">>),
     <<>>, <<"/">>, <<"/", "/", "workout_memory">>,
     <<"workout_memory", "/", "x">>, <<"x", "/", "workout_memory">>}

IdentifyOps == {[op |-> "add", path |-> p, value |-> JNull, from |-> <<>>] : p \in IdentifyPaths}

InitIdentify ==
    /\ dirExists = FALSE
    /\ files = NoFiles
    /\ mem = None
    /\ clock = 0
    /\ last = NoLast
    /\ sessions = NoSessions
    /\ pure \in {[k |-> "identify_in", patch |-> q] : q \in SeqsUpTo(IdentifyOps, MaxOps)}

\* manager._identify_modified_components(patch)
IdentifyModifiedComponents ==
    /\ pure.k = "identify_in"
    /\ pure' = [k |-> "identify", patch |-> pure.patch,
                result |-> identify_modified_components(pure.patch)]
    /\ UNCHANGED <<dirExists, files, mem, clock, last, sessions>>

NextIdentify == IdentifyModifiedComponents

SpecIdentify == InitIdentify /\ [][NextIdentify]_vars

-----------------------------------------------------------------------------
(* Two sessions of one user: construction, load, patch, file writes *)

Sessions == {1, 2}

AddRide ==
    Op("add", <<"workout_memory", "recent_workouts", "-">>,
       Obj1("workout_type", JStr("Ride")))

\* The patch a session's collaborator submits
SessionPatches == {<<AddWorkout>>, <<AddRide>>, <<AddWeight>>, <<AddWorkout, AddWeight>>}

\* The length of the text json.dump writes for a value (to the character
\* for strings, a fixed width for the rest)
RECURSIVE JsonSize(_), KeysSize(_, _), ItemsSize(_)
JsonSize(v) ==
    CASE v.t = "str" -> Len(v.s) + 2
      [] v.t = "iso" -> 21
      [] v.t = "obj" -> 2 + KeysSize(v.o, DOMAIN v.o)
      [] v.t = "list" -> 2 + ItemsSize(v.l)
      [] OTHER -> 4

KeysSize(o, keys) ==
    IF keys = {} THEN 0
    ELSE LET k == CHOOSE j \in keys : TRUE
         IN  Len(k) + 4 + JsonSize(o[k]) + KeysSize(o, keys \ {k})

ItemsSize(q) == IF q = <<>> THEN 0 ELSE 2 + JsonSize(Head(q)) + ItemsSize(Tail(q))

\* Path.mkdir(parents=True, exist_ok=True) inside try/except OSError: the
\* directory is there afterwards and nothing is raised, existing or not
mkdir_strict(exists) == [raises |-> exists, dir |-> TRUE]

mkdir(exists) == [raises |-> FALSE, dir |-> TRUE]

\* open(path, "w") truncates the file: its text is empty, which does not parse
Truncated == Garbage

\* json.dump and close on a file opened with "w": the text is written from
\* offset 0 over what the file holds by then; a longer text another writer
\* has put there since the open keeps its tail, which leaves no valid JSON
Overwrite(current, text) ==
    IF current \in {Absent, Truncated} THEN text
    ELSE IF JsonSize(text) < JsonSize(current) THEN Garbage
    ELSE text

NewSession ==
    [pc |-> "new", saw |-> FALSE, raised |-> FALSE, memory |-> None, patch |-> <<>>,
     ret |-> None, names |-> {}, towrite |-> NoFiles, pending |-> {}, opened |-> ""]

InitSessions ==
    /\ \/ dirExists = FALSE /\ files = NoFiles
       \/ dirExists = TRUE /\ files = SeededFiles
    /\ mem = None
    /\ clock = 0
    /\ last = NoLast
    /\ pure = NoPure
    /\ sessions = [s \in Sessions |-> NewSession]

\* MemoryManager.__init__: the is_dir() check
CheckDir(s) ==
    /\ sessions[s].pc = "new"
    /\ sessions' = [sessions EXCEPT ![s].pc = "checked", ![s].saw = dirExists]
    /\ UNCHANGED <<dirExists, files, mem, clock, last, pure>>

\* MemoryManager.__init__: the mkdir, when the check saw no directory
MakeDir(s) ==
    /\ sessions[s].pc = "checked"
    /\ IF sessions[s].saw
       THEN /\ sessions' = [sessions EXCEPT ![s].pc = "ready"]
            /\ UNCHANGED dirExists
       ELSE /\ sessions' = [sessions EXCEPT ![s].pc = "ready",
                                            ![s].raised = mkdir(dirExists).raises]
            /\ dirExists' = mkdir(dirExists).dir
    /\ UNCHANGED <<files, mem, clock, last, pure>>

\* The session's load_memory
SessionLoad(s) ==
    /\ sessions[s].pc = "ready"
    /\ sessions' = [sessions EXCEPT ![s].pc = "loaded",
                                    ![s].memory = load_memory(dirExists, files, clock)]
    /\ UNCHANGED <<dirExists, files, mem, clock, last, pure>>

\* The session as apply_json_patch leaves it for a given outcome: the files
\* _save_updated_components is to write are pending
Patched(session, patch, out) ==
    [session EXCEPT !.patch = patch,
                    !.pc = IF \A c \in TopKeys : out.files[c] = Absent
                           THEN "done" ELSE "saving",
                    !.ret = out.ret, !.names = out.names, !.towrite = out.files,
                    !.pending = {c \in TopKeys : out.files[c] # Absent}]

\* The session's apply_json_patch up to the first file write
SessionApply(s) ==
    /\ sessions[s].pc = "loaded"
    /\ \E patch \in SessionPatches :
         sessions' = [sessions EXCEPT ![s] =
                        Patched(sessions[s], patch,
                                apply_json_patch(dirExists, NoFiles, sessions[s].memory,
                                                 patch, clock))]
    /\ UNCHANGED <<dirExists, files, mem, clock, last, pure>>

\* _save_updated_components: open(file_path, "w") for a component to write
OpenFile(s) ==
    /\ sessions[s].pc = "saving"
    /\ sessions[s].opened = ""
    /\ \E c \in sessions[s].pending :
         /\ files' = [files EXCEPT ![c] = Truncated]
         /\ sessions' = [sessions EXCEPT ![s].opened = c]
    /\ UNCHANGED <<dirExists, mem, clock, last, pure>>

\* The session once the opened file is written and closed
Written(session) ==
    [session EXCEPT !.opened = "",
                    !.pending = session.pending \ {session.opened},
                    !.pc = IF session.pending = {session.opened} THEN "done" ELSE "saving"]

\* _save_updated_components: json.dump into the opened file, and its close
WriteFile(s) ==
    /\ sessions[s].pc = "saving"
    /\ sessions[s].opened # ""
    /\ files' = [files EXCEPT ![sessions[s].opened] =
                    Overwrite(files[sessions[s].opened],
                              sessions[s].towrite[sessions[s].opened])]
    /\ sessions' = [sessions EXCEPT ![s] = Written(sessions[s])]
    /\ UNCHANGED <<dirExists, mem, clock, last, pure>>

NextSessions ==
    \E s \in Sessions :
        \/ CheckDir(s)
        \/ MakeDir(s)
        \/ SessionLoad(s)
        \/ SessionApply(s)
        \/ OpenFile(s)
        \/ WriteFile(s)

SpecSessions == InitSessions /\ [][NextSessions]_vars

-----------------------------------------------------------------------------
(* Saves whose file writes can fail *)

\* A write that raises leaves the file as it was (the open raised) or
\* truncated (the dump raised)
FailedWrite(current, effect) == IF effect = "open" THEN current ELSE Truncated

\* _save_updated_components when the writes of the components in failing
\* raise: each error is caught and logged, the loop goes on, nothing is
\* returned (written: the records it writes when nothing fails)
WithFailures(fs, written, failing, effect) ==
    [f \in DOMAIN fs |->
        IF written[f] = Absent THEN fs[f]
        ELSE IF f \in failing THEN FailedWrite(fs[f], effect)
        ELSE written[f]]

\* model_dump().items(): the fields in declaration order
SaveOrder ==
    <<"user_info", "user_profile", "workout_memory", "activities", "biometrics",
      "workout_plan", "chat_history">>

Position(f) == CHOOSE i \in 1..Len(SaveOrder) : SaveOrder[i] = f

\* save_memory when the write of the record failing raises: the records
\* before it are written, the exception leaves the loop
save_memory_until(fs, memory, failing, effect) ==
    [f \in DOMAIN fs |->
        IF Position(f) < Position(failing) THEN json_serial(model_dump(memory).o[f])
        ELSE IF f = failing THEN FailedWrite(fs[f], effect)
        ELSE fs[f]]

\* BaseHandler.save_json_file(file_path, data): the file afterwards and the
\* value returned.  The name json_serial is not defined in the handler's
\* module: after a successful open the json.dump call raises NameError,
\* which the except turns into False with the file left truncated
save_json_file(current, data, os_error) ==
    [file |-> IF os_error THEN current ELSE Truncated, ret |-> FALSE]

\* What a save with failing writes told its caller
Signal(op, failed, signalled) ==
    [k |-> "io", op |-> op, failed |-> failed, signalled |-> signalled]

FailSets == {{}} \cup {{c} : c \in Components}
Effects == {"open", "dump"}

\* A user's records, loaded: a user a handler just created, or one with
\* records from an earlier session
InitIO ==
    /\ dirExists = TRUE
    /\ files \in {[NoFiles EXCEPT !["user_info"] = UserInfoRecord(0)], SeededFiles}
    /\ mem = load_memory(TRUE, files, 0)
    /\ clock = 0
    /\ last = NoLast
    /\ pure = NoPure
    /\ sessions = NoSessions

\* apply_json_patch by its outcome when nothing fails
FailingPatch(patch, out, failing, effect) ==
    /\ files' = WithFailures(files, out.files, failing, effect)
    /\ pure' = Signal("apply_json_patch",
                      {c \in failing : out.files[c] # Absent}, out.ret = None)
    /\ last' = Last("apply_json_patch", patch, out.names, out.ret, clock + 1)

\* manager.apply_json_patch(memory, patch) with writes that can fail
ApplyJsonPatchIO ==
    /\ clock < MaxClock
    /\ \E patch \in SessionPatches, failing \in FailSets, effect \in Effects :
         FailingPatch(patch,
                      apply_json_patch(dirExists, NoFiles, mem, patch, clock + 1),
                      failing, effect)
    /\ clock' = clock + 1
    /\ UNCHANGED <<dirExists, mem, sessions>>

\* manager.save_memory(memory) with a write that fails: the exception
\* reaches the caller
SaveMemoryIO ==
    /\ clock < MaxClock
    /\ \E failing \in TopKeys, effect \in Effects :
         /\ files' = save_memory_until(files, mem, failing, effect)
         /\ pure' = Signal("save_memory", {failing}, TRUE)
    /\ last' = Last("save_memory", <<>>, {}, None, clock)
    /\ clock' = clock + 1
    /\ UNCHANGED <<dirExists, mem, sessions>>

\* A handler's BaseHandler.save_json_file(<component>.json, data)
SaveJsonFile ==
    /\ \E c \in {"activities", "workout_memory"}, os_error \in BOOLEAN :
         /\ files' = [files EXCEPT ![c] =
                         save_json_file(files[c], json_serial(mem.o[c]), os_error).file]
         /\ pure' = Signal("save_json_file", IF os_error THEN {c} ELSE {},
                           ~save_json_file(files[c], json_serial(mem.o[c]), os_error).ret)
    /\ last' = Last("save_json_file", <<>>, {}, None, clock)
    /\ UNCHANGED <<dirExists, mem, clock, sessions>>

NextIO ==
    \/ ApplyJsonPatchIO
    \/ SaveMemoryIO
    \/ SaveJsonFile

SpecIO == InitIO /\ [][NextIO]_vars

-----------------------------------------------------------------------------
(* Temporal views: dates *)

\* A datetime is an instant: day ordinal (date.toordinal()) times Slots
\* plus the time of day
Slots == 2

Instant(day, slot) == day * Slots + slot

\* datetime.date(): the day ordinal of an instant
Date(instant) == instant \div Slots

\* datetime.min
DatetimeMin == Instant(1, 0)

DaysBeforeMonth == <<0, 31, 59, 90, 120, 151, 181, 212, 243, 273, 304, 334>>
DaysInMonth == <<31, 28, 31, 30, 31, 30, 31, 31, 30, 31, 30, 31>>

\* The month and day of the n-th day (from 0) of a year
MonthDay(y, n, leap, month) ==
    LET before == DaysBeforeMonth[month] + (IF month > 2 /\ leap THEN 1 ELSE 0)
    IN  IF before > n
        THEN [year |-> y, month |-> month - 1,
              day |-> n - (before - DaysInMonth[month - 1]
                           - (IF month - 1 = 2 /\ leap THEN 1 ELSE 0)) + 1]
        ELSE [year |-> y, month |-> month, day |-> n - before + 1]

YearDay(n400, n100, n4, n1, n) ==
    IF n1 = 4 \/ n100 = 4
    THEN [year |-> n400 * 400 + n100 * 100 + n4 * 4 + n1, month |-> 12, day |-> 31]
    ELSE MonthDay(n400 * 400 + 1 + n100 * 100 + n4 * 4 + n1, n,
                  n1 = 3 /\ (n4 # 24 \/ n100 = 3), (n + 50) \div 32)

\* The year, month and day of a day ordinal (proleptic Gregorian calendar)
Ymd(ordinal) ==
    LET n == ordinal - 1
    IN  YearDay(n \div 146097, (n % 146097) \div 36524,
                ((n % 146097) % 36524) \div 1461,
                (((n % 146097) % 36524) % 1461) \div 365,
                (((n % 146097) % 36524) % 1461) % 365)

\* get_time_ago(target_date, now).days
get_time_ago(target_date, now) == Date(now) - Date(target_date)

\* The key f"{year}-Q{quarter}" of a date
QuarterKey(instant) ==
    <<Ymd(Date(instant)).year, ((Ymd(Date(instant)).month - 1) \div 3) + 1>>

\* The if/elif chain on days_ago
Horizon(days_ago) ==
    IF days_ago <= 30 THEN "last_30_days"
    ELSE IF days_ago <= 365 THEN "last_year_quarterly"
    ELSE IF days_ago <= 2 * 365 THEN "second_year"
    ELSE "omitted"

\* sorted(seq, key=..., reverse=True): stable, largest key first
SortedDesc(seq, key) ==
    [p \in 1..Len(seq) |->
        seq[CHOOSE i \in 1..Len(seq) :
              p = 1 + Cardinality({j \in 1..Len(seq) :
                          key[j] > key[i] \/ (key[j] = key[i] /\ j < i)})]]

\* sorted(keys, reverse=True) of quarter keys
RECURSIVE QuartersDesc(_)
QuartersDesc(keys) ==
    IF keys = {} THEN <<>>
    ELSE LET top == CHOOSE k \in keys :
                      \A j \in keys : j[1] < k[1] \/ (j[1] = k[1] /\ j[2] <= k[2])
         IN  <<top>> \o QuartersDesc(keys \ {top})

\* The values of a sequence
Range(seq) == {seq[i] : i \in 1..Len(seq)}

\* A line of a rendered view: its kind, its section and what it shows
Line(t, h, x) == [t |-> t, h |-> h, x |-> x]

RECURSIVE Flatten(_)
Flatten(seqs) == IF seqs = <<>> THEN <<>> ELSE Head(seqs) \o Flatten(Tail(seqs))

-----------------------------------------------------------------------------
(* Temporal views: WorkoutMemory.get_llm_view *)

HasDate(entry, field) == entry[field].t = "dt"

WorkoutKeys(ws) ==
    [i \in 1..Len(ws) |->
        IF HasDate(ws[i], "start_date") THEN ws[i].start_date.n ELSE DatetimeMin]

\* The workouts of one horizon, newest first
WorkoutsIn(h, ws, now) ==
    SelectSeq(SortedDesc(ws, WorkoutKeys(ws)),
              LAMBDA w : /\ HasDate(w, "start_date")
                         /\ Horizon(get_time_ago(w.start_date.n, now)) = h)

\* workouts_by_period["last_year_quarterly"][quarter_key]
WorkoutsOfQuarter(key, ws, now) ==
    SelectSeq(WorkoutsIn("last_year_quarterly", ws, now),
              LAMBDA w : QuarterKey(w.start_date.n) = key)

\* The type a workout is listed under
TypeOf(w, fallback) ==
    IF w.original_type # "" THEN w.original_type
    ELSE IF w.workout_type # "" THEN w.workout_type
    ELSE fallback

\* The keys of by_type in insertion order
RECURSIVE TypesOf(_, _)
TypesOf(ws, seen) ==
    IF ws = <<>> THEN <<>>
    ELSE IF TypeOf(Head(ws), "Unknown") \in seen THEN TypesOf(Tail(ws), seen)
    ELSE <<TypeOf(Head(ws), "Unknown")>>
         \o TypesOf(Tail(ws), seen \cup {TypeOf(Head(ws), "Unknown")})

\* _summarize_period(workouts) for workouts without distance, duration,
\* heart rate or calories: one "<type> <n> times:" line per type
summarize_period(ws, h, key) ==
    IF ws = <<>> THEN <<Line("nodata", h, "No workouts in this period.")>>
    ELSE [i \in 1..Len(TypesOf(ws, {})) |->
            Line("summary", h,
                 [key |-> key, type |-> TypesOf(ws, {})[i],
                  times |-> Len(SelectSeq(ws, LAMBDA w :
                                TypeOf(w, "Unknown") = TypesOf(ws, {})[i]))])]

\* The "- <date>: <type> (...)" line of a recent workout
WorkoutItem(w) ==
    Line("item", "last_30_days",
         [date |-> Ymd(Date(w.start_date.n)), type |-> TypeOf(w, "Workout")])

RecentWorkoutLines(recent) ==
    <<Line("header", "last_30_days", "-- Recent Workouts (Last 30 Days) --")>>
    \o (IF recent # <<>> THEN [i \in 1..Len(recent) |-> WorkoutItem(recent[i])]
        ELSE <<Line("nodata", "last_30_days",
                    "No workouts recorded in the last 30 days.")>>)

QuarterLines(key, ws) ==
    <<Line("key", "last_year_quarterly", key)>>
    \o summarize_period(ws, "last_year_quarterly", key)

QuarterlyWorkoutLines(quarterly, keys, ws, now) ==
    <<Line("header", "last_year_quarterly", "-- Recent Year (Quarterly Summary) --")>>
    \o (IF quarterly # <<>>
        THEN Flatten([i \in 1..Len(keys) |->
                        QuarterLines(keys[i], WorkoutsOfQuarter(keys[i], ws, now))])
        ELSE <<Line("nodata", "last_year_quarterly",
                    "No workouts recorded in the recent year (beyond 30 days).")>>)

SecondYearWorkoutLines(second) ==
    <<Line("header", "second_year",
           IF second # <<>> THEN <<"Year", Ymd(Date(second[1].start_date.n)).year>>
           ELSE <<"Second Year">>)>>
    \o (IF second # <<>> THEN summarize_period(second, "second_year", <<>>)
        ELSE <<Line("nodata", "second_year",
                    "No workouts recorded in the second year.")>>)

\* WorkoutGoals.get_llm_view() of a user without goals
WorkoutGoalLines ==
    <<Line("header", "goals", "-- Workout Goals --"),
      Line("nodata", "goals", "No specific workout goals defined.")>>

WorkoutSections(recent, quarterly, second, ws, now) ==
    <<Line("title", "", "=== Workout History ===")>>
    \o RecentWorkoutLines(recent)
    \o QuarterlyWorkoutLines(quarterly,
           QuartersDesc({QuarterKey(w.start_date.n) : w \in Range(quarterly)}), ws, now)
    \o SecondYearWorkoutLines(second)
    \o WorkoutGoalLines

\* WorkoutMemory.get_llm_view(now): the lines of the view
WorkoutMemory_get_llm_view(ws, now) ==
    IF ws = <<>>
    THEN <<Line("title", "", "=== Workout History ==="),
           Line("nodata", "", "No workout history available.")>>
    ELSE WorkoutSections(WorkoutsIn("last_30_days", ws, now),
                         WorkoutsIn("last_year_quarterly", ws, now),
                         WorkoutsIn("second_year", ws, now), ws, now)

-----------------------------------------------------------------------------
(* Temporal views: BodyComposition.get_llm_view *)

\* Reading values are in thousandths: 182 is 0.182, 18200 is 18.2.
\* f"{v:.1f}" of a value of total/count thousandths, in tenths
Tenths(total, count) == (2 * total + 100 * count) \div (200 * count)

RECURSIVE Sum(_)
Sum(values) == IF values = <<>> THEN 0 ELSE Head(values) + Sum(Tail(values))

Min(values) == CHOOSE v \in Range(values) : \A w \in Range(values) : v <= w
Max(values) == CHOOSE v \in Range(values) : \A w \in Range(values) : v >= w

\* The values the statistics are computed over: every value times 100 when
\* all of them are below 1.0, else every value as stored
StatValues(values, is_body_fat) ==
    IF is_body_fat /\ \A v \in Range(values) : v < 1000
    THEN [i \in 1..Len(values) |-> values[i] * 100]
    ELSE values

Stats(values, unit) ==
    [count |-> Len(values), avg |-> Tenths(Sum(values), Len(values)),
     min |-> Tenths(Min(values), 1), max |-> Tenths(Max(values), 1), unit |-> unit]

\* _summarize_biometric_period(readings, is_body_fat) of a non-empty list
summarize_biometric_period(readings, is_body_fat) ==
    Stats(StatValues([i \in 1..Len(readings) |-> readings[i].value], is_body_fat),
          IF is_body_fat THEN "%" ELSE readings[1].unit)

\* A line of the body composition view: its kind, metric, horizon, content
BLine(t, m, h, x) == [t |-> t, m |-> m, h |-> h, x |-> x]

ReadingKeys(rs) ==
    [i \in 1..Len(rs) |-> IF HasDate(rs[i], "date") THEN rs[i].date.n ELSE DatetimeMin]

\* The readings of one horizon, newest first; a reading whose date is not a
\* datetime object is skipped
ReadingsIn(h, rs, now) ==
    SelectSeq(SortedDesc(rs, ReadingKeys(rs)),
              LAMBDA r : /\ HasDate(r, "date")
                         /\ Horizon(get_time_ago(r.date.n, now)) = h)

ReadingsOfQuarter(key, rs, now) ==
    SelectSeq(ReadingsIn("last_year_quarterly", rs, now),
              LAMBDA r : QuarterKey(r.date.n) = key)

\* The "- <date>: <value>" line of a recent reading
ReadingItem(name, r) ==
    BLine("item", name, "last_30_days",
          [date |-> Ymd(Date(r.date.n)),
           value |-> IF name = "Body Fat %" /\ r.value < 1000
                     THEN Tenths(r.value * 100, 1) ELSE Tenths(r.value, 1),
           unit |-> IF name = "Body Fat %" THEN "%" ELSE r.unit])

RecentReadingLines(name, recent) ==
    IF recent = <<>> THEN <<>>
    ELSE <<BLine("header", name, "last_30_days", "Last 30 Days:")>>
         \o [i \in 1..Len(recent) |-> ReadingItem(name, recent[i])]

QuarterlyReadingLines(name, quarterly, keys, rs, now) ==
    IF quarterly = <<>> THEN <<>>
    ELSE <<BLine("header", name, "last_year_quarterly", "Recent Year (Quarterly Avg):")>>
         \o [i \in 1..Len(keys) |->
               BLine("summary", name, "last_year_quarterly",
                     [key |-> keys[i],
                      stats |-> summarize_biometric_period(
                                    ReadingsOfQuarter(keys[i], rs, now),
                                    name = "Body Fat %")])]

SecondYearReadingLines(name, second) ==
    IF second = <<>> THEN <<>>
    ELSE <<BLine("header", name, "second_year",
                 <<"Year", Ymd(Date(second[1].date.n)).year>>),
           BLine("summary", name, "second_year",
                 [key |-> <<>>,
                  stats |-> summarize_biometric_period(second, name = "Body Fat %")])>>

MetricSections(name, recent, quarterly, second, rs, now) ==
    <<BLine("metric", name, "", name)>>
    \o RecentReadingLines(name, recent)
    \o QuarterlyReadingLines(name, quarterly,
           QuartersDesc({QuarterKey(r.date.n) : r \in Range(quarterly)}), rs, now)
    \o SecondYearReadingLines(name, second)
    \o (IF recent = <<>> /\ quarterly = <<>> /\ second = <<>>
        THEN <<BLine("nodata", name, "", "No recent data.")>> ELSE <<>>)

\* The lines of one metric; a metric without readings is left out
MetricLines(name, rs, now) ==
    IF rs = <<>> THEN <<>>
    ELSE MetricSections(name, ReadingsIn("last_30_days", rs, now),
                        ReadingsIn("last_year_quarterly", rs, now),
                        ReadingsIn("second_year", rs, now), rs, now)

\* The attribute holding the readings of a metric
Metrics ==
    [m \in {"Weight", "Body Fat %", "BMI"} |->
        CASE m = "Weight" -> "weight_readings"
          [] m = "Body Fat %" -> "body_fat_percentage_readings"
          [] OTHER -> "bmi_readings"]

\* BodyComposition.get_llm_view(now) of a record without legacy fields: the
\* lines of the view (none: the empty string)
BodyComposition_get_llm_view(bc, now) ==
    IF \A m \in DOMAIN Metrics : bc[Metrics[m]] = <<>> THEN <<>>
    ELSE <<BLine("title", "", "", "--- Body Composition ---")>>
         \o MetricLines("Weight", bc.weight_readings, now)
         \o MetricLines("Body Fat %", bc.body_fat_percentage_readings, now)
         \o MetricLines("BMI", bc.bmi_readings, now)

\* The readings as they come back from storage: json_serial writes each
\* datetime as a string, and a reading is a Dict[str, Any], which
\* validation leaves as it is
StoredReadings(rs) ==
    [i \in 1..Len(rs) |-> [rs[i] EXCEPT !.date = json_serial(rs[i].date)]]

StoredBodyComposition(bc) == [f \in DOMAIN bc |-> StoredReadings(bc[f])]

-----------------------------------------------------------------------------
(* Temporal views: Activities.get_llm_view *)

ActivityKeys(as) == [i \in 1..Len(as) |-> as[i].date.n]

\* The loop over sorted_activities without the unique_dates check
RECURSIVE EntriesWithData(_, _)
EntriesWithData(sorted, unique_dates) ==
    IF sorted = <<>> THEN <<>>
    ELSE IF Head(sorted).steps > 0
    THEN <<Head(sorted)>> \o EntriesWithData(Tail(sorted), unique_dates)
    ELSE EntriesWithData(Tail(sorted), unique_dates)

\* The loop over sorted_activities: entries with steps, the first of each
\* calendar day
RECURSIVE DaysWithData(_, _)
DaysWithData(sorted, unique_dates) ==
    IF sorted = <<>> THEN <<>>
    ELSE IF Head(sorted).steps > 0 /\ Date(Head(sorted).date.n) \notin unique_dates
    THEN <<Head(sorted)>>
         \o DaysWithData(Tail(sorted), unique_dates \cup {Date(Head(sorted).date.n)})
    ELSE DaysWithData(Tail(sorted), unique_dates)

days_with_data(as) == DaysWithData(SortedDesc(as, ActivityKeys(as)), {})

\* The window filter with the cut-off day included
WindowInclusive(days, n, now) ==
    SelectSeq(days, LAMBDA a : Date(a.date.n) >= Date(now) - n)

\* [a for a in days_with_data if a.date.date() > today - timedelta(days=n)]
Window(days, n, now) ==
    SelectSeq(days, LAMBDA a : Date(a.date.n) > Date(now) - n)

\* int(statistics.mean([a.<field> for a in stats])) of non-negative values
IntMean(stats, field) ==
    Sum([i \in 1..Len(stats) |-> stats[i][field]]) \div Len(stats)

ActiveDays(stats) == Len(SelectSeq(stats, LAMBDA a : a.steps > 5000))

Last7Lines(stats) ==
    <<Line("header", "last_7_days", "-- Last 7 Days Avg --")>>
    \o (IF stats # <<>>
        THEN <<Line("stat", "last_7_days", <<"Steps/Day", IntMean(stats, "steps")>>),
               Line("stat", "last_7_days",
                    <<"Active Cal/Day", IntMean(stats, "active_energy_burned")>>),
               Line("stat", "last_7_days",
                    <<"Exercise Min/Day", IntMean(stats, "exercise_minutes")>>),
               Line("stat", "last_7_days", <<"Days with Data", Len(stats)>>)>>
        ELSE <<Line("nodata", "last_7_days", "No activity data.")>>)

Last30Lines(stats) ==
    <<Line("header", "last_30_days", "-- Last 30 Days --")>>
    \o (IF stats # <<>>
        THEN <<Line("stat", "last_30_days", <<"Active Days (>5k steps)", ActiveDays(stats)>>),
               Line("stat", "last_30_days", <<"Avg Steps/Day", IntMean(stats, "steps")>>),
               Line("stat", "last_30_days", <<"Days with Data", Len(stats)>>)>>
        ELSE <<Line("nodata", "last_30_days", "No activity data.")>>)

Last365Lines(stats) ==
    <<Line("header", "last_365_days", "-- Last 365 Days --")>>
    \o (IF stats # <<>>
        THEN <<Line("stat", "last_365_days", <<"Avg Steps/Day", IntMean(stats, "steps")>>),
               Line("stat", "last_365_days",
                    <<"Total Active Days (>5k steps)", ActiveDays(stats)>>),
               Line("stat", "last_365_days",
                    <<"Avg Exercise Min/Day", IntMean(stats, "exercise_minutes")>>),
               Line("stat", "last_365_days", <<"Days with Data", Len(stats)>>)>>
        ELSE <<Line("nodata", "last_365_days", "No activity data.")>>)

ActivitySections(days, now) ==
    IF days = <<>>
    THEN <<Line("title", "", "=== Activity Summary ==="),
           Line("nodata", "", "No step data available.")>>
    ELSE <<Line("title", "", "=== Activity Summary ===")>>
         \o Last7Lines(Window(days, 7, now))
         \o Last30Lines(Window(days, 30, now))
         \o Last365Lines(Window(days, 365, now))

\* Activities.get_llm_view(now): the lines of the view
Activities_get_llm_view(as, now) ==
    IF as = <<>>
    THEN <<Line("title", "", "=== Activity Summary ==="),
           Line("nodata", "", "No activity data available.")>>
    ELSE ActivitySections(days_with_data(as), now)

-----------------------------------------------------------------------------
(* Temporal views: the views of bounded histories at an injected now *)

MaxEntries == 2

\* 2025-03-10 00:00 and 2025-12-31 later in the day
Nows == {Instant(739320, 0), Instant(739616, 1)}

DaysAgo(age, slot, now) == JDt(Instant(Date(now) - age, slot))

WorkoutOn(start_date, type) ==
    [start_date |-> start_date, workout_type |-> type, original_type |-> ""]

WorkoutAges == {-1, 0, 5, 30, 31, 100, 365, 366, 400, 730, 731, 800}

WorkoutChoices(now) ==
    {WorkoutOn(DaysAgo(age, 0, now), "Run") : age \in WorkoutAges}
    \cup {WorkoutOn(DaysAgo(100, 0, now), "Ride"), WorkoutOn(JNull, "Run")}

ReadingOn(date, value, unit) == [date |-> date, value |-> value, unit |-> unit]

ReadingAges == {5, 100, 400, 800}

\* Body fat stored as a fraction (0.182) or as a percentage (18.2)
BodyFatChoices(now) ==
    {ReadingOn(DaysAgo(age, 0, now), value, "%") :
        age \in ReadingAges, value \in {182, 18200}}

WeightChoices(now) ==
    {<<>>, <<ReadingOn(DaysAgo(5, 0, now), 70400, "kg")>>,
     <<ReadingOn(DaysAgo(400, 0, now), 70400, "kg")>>}

ActivityOn(date, steps) ==
    [date |-> date, steps |-> steps, active_energy_burned |-> 0, exercise_minutes |-> 0]

ActivityAges == {-1, 3, 6, 7, 29, 30, 100, 364, 365, 400, 800}

ActivityChoices(now) ==
    {ActivityOn(DaysAgo(age, 0, now), 6000) : age \in ActivityAges}
    \cup {ActivityOn(DaysAgo(3, slot, now), steps) :
             slot \in 0..(Slots - 1), steps \in {0, 4000}}

View(k, now, input, view) ==
    [k |-> k, now |-> now, input |-> input, after |-> input, view |-> view]

\* A history waiting to be rendered
Input(kind, now, input) == [k |-> "input", kind |-> kind, now |-> now, input |-> input]

BodyCompositionOf(weight, fat, stored) ==
    IF stored
    THEN StoredBodyComposition([weight_readings |-> weight, bmi_readings |-> <<>>,
                                body_fat_percentage_readings |-> fat])
    ELSE [weight_readings |-> weight, bmi_readings |-> <<>>,
          body_fat_percentage_readings |-> fat]

\* The body composition records: readings made in this process or read back
\* from storage
BodyCompositions(now) ==
    {BodyCompositionOf(weight, fat, stored) :
        weight \in WeightChoices(now),
        fat \in SeqsUpTo(BodyFatChoices(now), MaxEntries), stored \in BOOLEAN}

Inputs(now) ==
    {Input("workouts", now, ws) : ws \in SeqsUpTo(WorkoutChoices(now), MaxEntries)}
    \cup {Input("biometrics", now, bc) : bc \in BodyCompositions(now)}
    \cup {Input("activities", now, as) :
             as \in SeqsUpTo(ActivityChoices(now), MaxEntries)}

InitView ==
    /\ dirExists = FALSE
    /\ files = NoFiles
    /\ mem = None
    /\ clock = 0
    /\ last = NoLast
    /\ \E now \in Nows : pure \in Inputs(now)
    /\ sessions = NoSessions

\* memory.workout_memory.get_llm_view(now)
WorkoutView ==
    /\ pure.k = "input" /\ pure.kind = "workouts"
    /\ pure' = View("workouts", pure.now, pure.input,
                    WorkoutMemory_get_llm_view(pure.input, pure.now))
    /\ UNCHANGED <<dirExists, files, mem, clock, last, sessions>>

\* memory.biometrics.body_composition.get_llm_view(now)
BiometricView ==
    /\ pure.k = "input" /\ pure.kind = "biometrics"
    /\ pure' = View("biometrics", pure.now, pure.input,
                    BodyComposition_get_llm_view(pure.input, pure.now))
    /\ UNCHANGED <<dirExists, files, mem, clock, last, sessions>>

\* memory.activities.get_llm_view(now)
ActivityView ==
    /\ pure.k = "input" /\ pure.kind = "activities"
    /\ pure' = View("activities", pure.now, pure.input,
                    Activities_get_llm_view(pure.input, pure.now))
    /\ UNCHANGED <<dirExists, files, mem, clock, last, sessions>>

NextView ==
    \/ WorkoutView
    \/ BiometricView
    \/ ActivityView

SpecView == InitView /\ [][NextView]_vars

-----------------------------------------------------------------------------
(* Compact projections: the profile *)

Categories == <<"fitness", "nutrition", "wellbeing", "other">>

\* [g.description for g in goals if g.description]
Descriptions(goals) ==
    [i \in 1..Len(SelectSeq(goals, LAMBDA g : g.description # "")) |->
        SelectSeq(goals, LAMBDA g : g.description # "")[i].description]

\* Goals.to_compact(): the descriptions of each category
Goals_to_compact(goals) == [c \in Range(Categories) |-> Descriptions(goals[c])]

\* The lines of one category in Goals.get_llm_view
CategoryGoals(c, active, completed) ==
    IF active = <<>> /\ completed = <<>> THEN <<>>
    ELSE <<Line("category", c, c)>>
         \o (IF active = <<>> THEN <<>>
             ELSE <<Line("header", c, "Current:")>>
                  \o [i \in 1..Len(active) |-> Line("item", c, active[i].description)])
         \o (IF completed = <<>> THEN <<>>
             ELSE <<Line("header", c, "Completed:")>>
                  \o [i \in 1..Len(completed) |-> Line("item", c, completed[i].description)])

CategoryLines(c, goals) ==
    CategoryGoals(c,
        SelectSeq(goals, LAMBDA g : g.status = "active" /\ g.description # ""),
        SelectSeq(goals, LAMBDA g : g.status = "completed" /\ g.description # ""))

GoalLines(lines) ==
    IF lines = <<>>
    THEN <<Line("title", "goals", "--- User Goals ---"),
           Line("nodata", "goals", "No specific goals defined.")>>
    ELSE <<Line("title", "goals", "--- User Goals ---")>> \o lines

\* Goals.get_llm_view(): the lines of the view
Goals_get_llm_view(goals) ==
    GoalLines(Flatten([i \in 1..Len(Categories) |->
                          CategoryLines(Categories[i], goals[Categories[i]])]))

\* [c for c in self.conditions if c.status != "template" and c.name]
valid_conditions(conditions) ==
    SelectSeq(conditions, LAMBDA c : c.status # "template" /\ c.name # "")

\* MedicalHistory.to_compact()
MedicalHistory_to_compact(conditions) ==
    IF valid_conditions(conditions) = <<>> THEN [conditions |-> <<>>]
    ELSE [conditions |-> valid_conditions(conditions)]

\* The condition names the model uses, in the order sorted() puts them
ConditionNames == <<"Asthma", "Ibuprofen", "Pollen", "Template">>

NameRank(name) == CHOOSE i \in 1..Len(ConditionNames) : ConditionNames[i] = name

\* sorted(conditions, key=lambda x: x.name): stable, smallest name first
SortedByName(cs) ==
    [p \in 1..Len(cs) |->
        cs[CHOOSE i \in 1..Len(cs) :
              p = 1 + Cardinality({j \in 1..Len(cs) :
                          NameRank(cs[j].name) < NameRank(cs[i].name)
                          \/ (cs[j].name = cs[i].name /\ j < i)})]]

\* One section of the medical history view, of conditions without details
ConditionSection(type, cs) ==
    IF cs = <<>> THEN <<>>
    ELSE <<Line("header", type, type)>>
         \o [i \in 1..Len(cs) |->
               Line("item", type, [name |-> cs[i].name, status |-> cs[i].status])]

NoneReported(type, cs) ==
    IF cs = <<>> THEN <<Line("nodata", type, "None reported")>> ELSE <<>>

OfType(type, valid) ==
    SortedByName(SelectSeq(valid, LAMBDA c : c.condition_type = type))

MedicalSections(valid) ==
    IF valid = <<>>
    THEN <<Line("title", "medical", "=== Medical History ==="),
           Line("nodata", "medical", "No significant medical history provided.")>>
    ELSE <<Line("title", "medical", "=== Medical History ===")>>
         \o ConditionSection("condition", OfType("condition", valid))
         \o ConditionSection("medication", OfType("medication", valid))
         \o ConditionSection("allergy", OfType("allergy", valid))
         \o NoneReported("condition", OfType("condition", valid))
         \o NoneReported("medication", OfType("medication", valid))
         \o NoneReported("allergy", OfType("allergy", valid))

\* MedicalHistory.get_llm_view(): the lines of the view
MedicalHistory_get_llm_view(conditions) == MedicalSections(valid_conditions(conditions))

\* UserProfile.to_compact() of a profile without demographics: the name,
\* and the goals when any category holds one
UserProfile_to_compact(profile) ==
    [name |-> profile.name, demographics |-> None,
     goals |-> IF \E c \in Range(Categories) : profile.goals[c] # <<>>
               THEN Goals_to_compact(profile.goals) ELSE None]

\* The medical history, preferences and goals part of
\* UserProfile.get_llm_view() of a profile without preferences
UserProfile_get_llm_view(profile) ==
    MedicalHistory_get_llm_view(profile.medical_history.conditions)
    \o <<Line("title", "preferences", "=== Preferences ==="),
         Line("nodata", "preferences", "No specific preferences set.")>>
    \o Goals_get_llm_view(profile.goals)

-----------------------------------------------------------------------------
(* Compact projections: the chat history *)

\* self.conversations[:10]
ChatHistory_to_compact_first(chat) ==
    [conversations |-> SubSeq(chat.conversations, 1,
                              IF Len(chat.conversations) < 10
                              THEN Len(chat.conversations) ELSE 10),
     last_interaction |-> chat.last_interaction]

\* ChatHistory.to_compact(): self.conversations[-10:]
ChatHistory_to_compact(chat) ==
    [conversations |-> SubSeq(chat.conversations,
                              IF Len(chat.conversations) > 10
                              THEN Len(chat.conversations) - 10 + 1 ELSE 1,
                              Len(chat.conversations)),
     last_interaction |-> chat.last_interaction]

-----------------------------------------------------------------------------
(* Compact projections: the aggregate *)

\* The named fields of a dict
Pick(v, keys) == JObj([k \in keys |-> Get(v, k)])

\* RecentWorkout.to_compact(), Activity.to_compact()
RecentWorkout_to_compact(w) == Pick(w, {"workout_type", "start_date"})
Activity_to_compact(a) == Pick(a, {"date"})

MapList(v, F(_)) == JList([i \in 1..Len(v.l) |-> F(v.l[i])])

\* WorkoutMemory.to_compact() of a memory without workout goals
WorkoutMemory_to_compact(wm) ==
    JObj([recent_workouts |-> MapList(Get(wm, "recent_workouts"), RecentWorkout_to_compact),
          workout_goals |-> JObj([current_goals |-> EmptyList,
                                  completed_goals |-> EmptyList])])

Activities_to_compact(as) ==
    Obj1("activities", MapList(Get(as, "activities"), Activity_to_compact))

\* self.body_composition.to_compact(): BodyComposition defines no
\* to_compact, the attribute lookup raises AttributeError
BodyComposition_to_compact(bc) == Raised

\* Biometrics.to_compact()
Biometrics_to_compact(b) ==
    IF BodyComposition_to_compact(Get(b, "body_composition")) = Raised THEN Raised
    ELSE Obj1("body_composition", BodyComposition_to_compact(Get(b, "body_composition")))

\* UserProfile.to_compact() of a profile without demographics and goals
Profile_to_compact(up) ==
    JObj([name |-> Get(up, "name"), demographics |-> JNull, goals |-> JNull])

WorkoutPlan_to_compact(wp) == Pick(wp, {"name"})

\* ChatHistory.to_compact() on the aggregate's chat history
Chat_to_compact(ch) ==
    JObj([conversations |->
             JList(ChatHistory_to_compact(
                       [conversations |-> Get(ch, "conversations").l,
                        last_interaction |-> JNull]).conversations),
          last_interaction |-> Get(ch, "last_interaction")])

\* The keyword arguments of CompactOverallMemory(...), evaluated in order
CompactParts(m) ==
    [workout_memory |-> WorkoutMemory_to_compact(m.o["workout_memory"]),
     activities |-> Activities_to_compact(m.o["activities"]),
     biometrics |-> Biometrics_to_compact(m.o["biometrics"]),
     user_profile |-> IF m.o["user_profile"] = JNull THEN JNull
                      ELSE Profile_to_compact(m.o["user_profile"]),
     workout_plan |-> WorkoutPlan_to_compact(m.o["workout_plan"]),
     medical_history |-> JNull,
     chat_history |-> Chat_to_compact(m.o["chat_history"])]

Compacted(parts) ==
    IF \E c \in DOMAIN parts : parts[c] = Raised THEN Raised ELSE JObj(parts)

\* OverallMemory.to_compact(): the compact aggregate, or Raised
OverallMemory_to_compact(memory) == Compacted(CompactParts(memory))

\* get_compact_memory(): load, then compact
get_compact_memory(dir, fs, now) == OverallMemory_to_compact(load_memory(dir, fs, now))

-----------------------------------------------------------------------------
(* Compact projections of bounded profiles, chat histories and stores *)

\* The most turns a chat history of the model holds
MaxTurns == 12

Goal(description, status) == [description |-> description, status |-> status]

GoalChoices ==
    {Goal("Run 5k", "active"), Goal("Walk daily", "completed"),
     Goal("Example goal", "template"), Goal("", "active")}

Condition(name, type, status) ==
    [name |-> name, condition_type |-> type, status |-> status]

ConditionChoices ==
    {Condition("Asthma", "condition", "active"),
     Condition("Ibuprofen", "medication", "managed"),
     Condition("Pollen", "allergy", "active"),
     Condition("Template", "condition", "template"),
     Condition("", "condition", "active")}

ProfileOf(fitness, other, conditions) ==
    [name |-> "Ann",
     goals |-> [fitness |-> fitness, nutrition |-> <<>>, wellbeing |-> <<>>,
                other |-> other],
     medical_history |-> [conditions |-> conditions]]

Profiles ==
    {ProfileOf(fitness, other, conditions) :
        fitness \in SeqsUpTo(GoalChoices, MaxEntries),
        other \in {<<>>, <<Goal("Example goal", "template")>>},
        conditions \in SeqsUpTo(ConditionChoices, MaxEntries)}

\* Chat histories of 0..MaxTurns numbered turns
Chats ==
    {[conversations |-> [i \in 1..n |-> i], last_interaction |-> n] : n \in 0..MaxTurns}

\* The stores an aggregate is loaded from
Stores == {NoFiles, [NoFiles EXCEPT !["user_info"] = UserInfoRecord(0)], SeededFiles}

CompactInputs ==
    {Input("profile", 0, profile) : profile \in Profiles}
    \cup {Input("chat", 0, chat) : chat \in Chats}
    \cup {Input("store", 0, fs) : fs \in Stores}

Compact(k, input, compact, view) ==
    [k |-> k, input |-> input, after |-> input, compact |-> compact, view |-> view]

InitCompact ==
    /\ dirExists = TRUE
    /\ files = NoFiles
    /\ mem = None
    /\ clock = 0
    /\ last = NoLast
    /\ pure \in CompactInputs
    /\ sessions = NoSessions

\* profile.to_compact(), profile.medical_history.to_compact() and
\* profile.get_llm_view()
ProfileCompact ==
    /\ pure.k = "input" /\ pure.kind = "profile"
    /\ pure' = Compact("profile", pure.input,
                       [user_profile |-> UserProfile_to_compact(pure.input),
                        medical_history |->
                            MedicalHistory_to_compact(pure.input.medical_history.conditions)],
                       UserProfile_get_llm_view(pure.input))
    /\ UNCHANGED <<dirExists, files, mem, clock, last, sessions>>

\* chat_history.to_compact()
ChatCompact ==
    /\ pure.k = "input" /\ pure.kind = "chat"
    /\ pure' = Compact("chat", pure.input, ChatHistory_to_compact(pure.input), <<>>)
    /\ UNCHANGED <<dirExists, files, mem, clock, last, sessions>>

\* manager.get_compact_memory() on a store
GetCompactMemory ==
    /\ pure.k = "input" /\ pure.kind = "store"
    /\ pure' = Compact("store", pure.input,
                       get_compact_memory(TRUE, pure.input, 0), <<>>)
    /\ UNCHANGED <<dirExists, files, mem, clock, last, sessions>>

NextCompact ==
    \/ ProfileCompact
    \/ ChatCompact
    \/ GetCompactMemory

SpecCompact == InitCompact /\ [][NextCompact]_vars

-----------------------------------------------------------------------------
(* The upload handlers *)

JNum(n) == [t |-> "num", n |-> n]

\* BaseHandler.load_json_file(file_path, default): the default when the file
\* is missing or does not parse
load_json_file(file, default) ==
    IF file = Absent \/ file = Garbage THEN default ELSE file

\* BaseHandler.ensure_user_exists(user_id): user_info.json afterwards
ensure_user_exists(fs, now) ==
    IF fs["user_info"] = Absent THEN [fs EXCEPT !["user_info"] = UserInfoRecord(now)]
    ELSE fs

\* The biometrics record upload_biometrics starts from when none is stored
NewBiometrics(now) ==
    JObj([user_id |-> UserId, created_at |-> JIso(now), updated_at |-> JIso(now),
          body_composition |-> EmptyObj, vital_signs |-> EmptyObj])

\* A BiometricMeasurement as request.<section>.model_dump() gives it
Measurement(value, timestamp) ==
    JObj([value |-> JNum(value), unit |-> JStr("kg"), timestamp |-> JIso(timestamp),
          source |-> JStr("manual")])

\* The history entry made of a measurement that carries no history array
HistoryEntry(m) ==
    JObj([value |-> Get(m, "value"), timestamp |-> Get(m, "timestamp"),
          source |-> Get(m, "source"), notes |-> JStr("")])

\* The entry_exists loop: an entry with the same value, timestamp and source
EntryExists(history, entry) ==
    \E i \in 1..Len(history.l) :
        /\ Get(history.l[i], "value") = Get(entry, "value")
        /\ Get(history.l[i], "timestamp") = Get(entry, "timestamp")
        /\ Get(history.l[i], "source") = Get(entry, "source")

\* history.insert(0, entry) unless the exact entry is there
Inserted(history, entry) ==
    IF EntryExists(history, entry) THEN history ELSE JList(<<entry>> \o history.l)

\* The record of one field after a measurement: current and unit set, the
\* entry added to the history
FieldAfter(section, field, m) ==
    IF ~HasKey(section, field)
    THEN JObj([current |-> Get(m, "value"), unit |-> Get(m, "unit"),
               history |-> JList(<<HistoryEntry(m)>>)])
    ELSE IF ~IsObj(section.o[field]) THEN Raised
    ELSE SetKey(SetKey(SetKey(section.o[field], "current", Get(m, "value")),
                       "unit", Get(m, "unit")),
                "history",
                Inserted(IF HasKey(section.o[field], "history")
                         THEN section.o[field].o["history"] ELSE EmptyList,
                         HistoryEntry(m)))

\* A section (body_composition or vital_signs) after the request's field
SectionAfter(section, field, m, now) ==
    IF FieldAfter(section, field, m) = Raised THEN Raised
    ELSE SetKey(SetKey(section, "updated_at", JIso(now)), field,
                FieldAfter(section, field, m))

\* biometrics_data after a request carrying one field of one section
BiometricsAfter(data, name, field, m, now) ==
    IF SectionAfter(IF HasKey(data, name) THEN data.o[name] ELSE EmptyObj,
                    field, m, now) = Raised
    THEN Raised
    ELSE SetKey(SetKey(data, name,
                       SectionAfter(IF HasKey(data, name) THEN data.o[name]
                                    ELSE EmptyObj, field, m, now)),
                "updated_at", JIso(now))

\* What an upload handed to the store and what it answered
Upload(op, request, data, status) ==
    [k |-> "upload", op |-> op, request |-> request, data |-> data, status |-> status]

\* upload_biometrics by the record it computed: the save's result is not
\* looked at, the answer is "success"
BiometricsSaved(request, fs, data) ==
    IF data = Raised
    THEN /\ files' = fs
         /\ pure' = Upload("upload_biometrics", request, Raised, "error")
    ELSE /\ files' = [fs EXCEPT !["biometrics"] =
                         save_json_file(fs["biometrics"], data, FALSE).file]
         /\ pure' = Upload("upload_biometrics", request, data, "success")

BiometricsUploaded(request, fs, now) ==
    BiometricsSaved(request, fs,
        BiometricsAfter(load_json_file(fs["biometrics"], NewBiometrics(now)),
                        request.section, request.field,
                        Measurement(request.value, request.timestamp), now))

BiometricsRequests ==
    [section : {"body_composition"}, field : {"weight", "bmi"},
     value : {70, 71}, timestamp : {0, 1}]
    \cup [section : {"vital_signs"}, field : {"resting_heart_rate"},
          value : {65, 70}, timestamp : {0, 1}]

\* POST /biometrics
UploadBiometrics ==
    /\ \E request \in BiometricsRequests :
         BiometricsUploaded(request, ensure_user_exists(files, clock), clock)
    /\ last' = Last("upload_biometrics", <<>>, {}, None, clock)
    /\ dirExists' = TRUE
    /\ UNCHANGED <<mem, clock, sessions>>

\* Activities.model_validate(load_json_file(...)).activities, the stored
\* dates parsed; an empty list when the record is missing or invalid
ExistingActivities(file) ==
    IF IsObj(file) /\ HasKey(file, "activities") /\ IsList(file.o["activities"])
       /\ \A i \in 1..Len(file.o["activities"].l) :
             Get(file.o["activities"].l[i], "date").t \in {"iso", "dt"}
    THEN [i \in 1..Len(file.o["activities"].l) |->
             SetKey(file.o["activities"].l[i], "date",
                    JDt(Get(file.o["activities"].l[i], "date").n))]
    ELSE <<>>

\* act.date.date() of a stored entry, datetime.fromisoformat(str(date)).date()
\* of an uploaded one, whose date is a string
DateOf(act) == Date(Get(act, "date").n)

\* The loop over incoming_activities: an entry whose date is a key of the
\* map built before the loop replaces the first entry of that date, any
\* other entry is appended
RECURSIVE Processed(_, _, _)
Processed(list, existing_activities_map, incoming) ==
    IF incoming = <<>> THEN list
    ELSE IF DateOf(Head(incoming)) \in existing_activities_map
    THEN Processed([list EXCEPT ![CHOOSE i \in 1..Len(list) :
                                     /\ DateOf(list[i]) = DateOf(Head(incoming))
                                     /\ \A j \in 1..(i - 1) :
                                           DateOf(list[j]) # DateOf(Head(incoming))]
                                  = Head(incoming)],
                   existing_activities_map, Tail(incoming))
    ELSE Processed(Append(list, Head(incoming)), existing_activities_map, Tail(incoming))

\* The dates of stored entries are datetimes and those of uploaded entries
\* strings: sorting a list that holds both raises TypeError
MixedDates(list) ==
    \E i, j \in 1..Len(list) : Get(list[i], "date").t # Get(list[j], "date").t

\* existing_activities_list.sort(key=date, reverse=True)
SortedActivities(list) ==
    SortedDesc(list, [i \in 1..Len(list) |-> Get(list[i], "date").n])

\* The list upload_activities has after its loop
ActivitiesAfter(existing, incoming) ==
    Processed(existing, {DateOf(existing[i]) : i \in 1..Len(existing)}, incoming)

\* The save of the sorted list: a failed save is answered with HTTP 500
ActivitiesStored(request, fs, list) ==
    /\ files' = [fs EXCEPT !["activities"] =
                    save_json_file(fs["activities"],
                                   Obj1("activities", JList(list)), FALSE).file]
    /\ pure' = Upload("upload_activities", request, list,
                      IF save_json_file(fs["activities"],
                                        Obj1("activities", JList(list)), FALSE).ret
                      THEN "success" ELSE "error")

\* upload_activities by the list its loop computed
ActivitiesSaved(request, fs, list) ==
    IF MixedDates(list)
    THEN /\ files' = fs
         /\ pure' = Upload("upload_activities", request, <<>>, "error")
    ELSE ActivitiesStored(request, fs, SortedActivities(list))

DailyActivity(day, slot, steps) ==
    JObj([date |-> JIso(Instant(day, slot)), steps |-> JNum(steps)])

ActivityRequests ==
    SeqsUpTo({DailyActivity(day, slot, steps) :
                 day \in {739320, 739321}, slot \in 0..(Slots - 1),
                 steps \in {4000, 6000}}, MaxEntries)

\* POST /activities
UploadActivities ==
    /\ \E request \in ActivityRequests :
         ActivitiesSaved(request, ensure_user_exists(files, clock),
             ActivitiesAfter(ExistingActivities(
                 load_json_file(ensure_user_exists(files, clock)["activities"],
                                EmptyObj)), request))
    /\ last' = Last("upload_activities", <<>>, {}, None, clock)
    /\ dirExists' = TRUE
    /\ UNCHANGED <<mem, clock, sessions>>

\* An empty store
InitUpload ==
    /\ dirExists = FALSE
    /\ files = NoFiles
    /\ mem = None
    /\ clock = 0
    /\ last = NoLast
    /\ pure = NoPure
    /\ sessions = NoSessions

NextUpload ==
    \/ UploadBiometrics
    \/ UploadActivities

SpecUpload == InitUpload /\ [][NextUpload]_vars

-----------------------------------------------------------------------------
(* Loading records stored in the legacy bare-list shape *)

\* The bare lists a stored component can hold, by component: days of
\* activity, workouts, weight readings, chat turns, plan days
LegacyLists(c) ==
    CASE c = "activities" ->
            {JList(<<Obj1("date", JIso(0))>>),
             JList(<<Obj1("date", JIso(1)), Obj1("date", JIso(0))>>)}
      [] c = "workout_memory" ->
            {JList(<<Obj1("workout_type", JStr("Run"))>>),
             JList(<<Obj1("workout_type", JStr("Run")), Obj1("workout_type", JStr("Other"))>>)}
      [] c = "biometrics" -> {JList(<<Reading>>)}
      [] c = "chat_history" ->
            {JList(<<Obj1("role", JStr("user"))>>),
             JList(<<Obj1("role", JStr("user")), Obj1("role", JStr("assistant"))>>)}
      [] c = "workout_plan" -> {JList(<<Obj1("day", JStr("Mon"))>>)}

LegacyDirs ==
    {[user_info |-> ui, user_profile |-> Absent, workout_memory |-> wm, activities |-> ac,
      biometrics |-> bi, workout_plan |-> wp, chat_history |-> ch] :
        ui \in {Absent, UserInfoRecord(0)},
        wm \in {Absent} \cup LegacyLists("workout_memory"),
        ac \in {Absent} \cup LegacyLists("activities"),
        bi \in {Absent} \cup LegacyLists("biometrics"),
        wp \in {Absent} \cup LegacyLists("workout_plan"),
        ch \in {Absent} \cup LegacyLists("chat_history")}

InitLegacy ==
    /\ dirExists = TRUE
    /\ files \in LegacyDirs
    /\ mem = None
    /\ clock = 0
    /\ last = NoLast
    /\ pure = NoPure
    /\ sessions = NoSessions

NextLegacy == LoadMemory

SpecLegacy == InitLegacy /\ [][NextLegacy]_vars

-----------------------------------------------------------------------------
(* update_memory applied twice with one patch *)

\* A dict with a null member, at any depth
RECURSIVE HasNullMember(_)
HasNullMember(v) ==
    \E j \in DOMAIN v.o :
        v.o[j] = JNull \/ (IsObj(v.o[j]) /\ HasNullMember(v.o[j]))

\* target[k] = v stores the patch's own dict v in the target. Merging the
\* same patch object again merges v into itself, and target.pop(k) while
\* iterating patch.items() of the same dict raises RuntimeError
RECURSIVE SelfMergeRaises(_, _)
SelfMergeRaises(target, patch) ==
    \E k \in DOMAIN patch.o :
        /\ IsObj(patch.o[k])
        /\ IF IsObj(Get(target, k)) THEN SelfMergeRaises(target.o[k], patch.o[k])
           ELSE HasNullMember(patch.o[k])

\* _merge_patch(_merge_patch(target, patch), patch), the second patch being
\* the same object as the first or an equal copy of it
merge_patch_twice(target, patch, same) ==
    IF same /\ SelfMergeRaises(target, patch) THEN Raised
    ELSE merge_patch(merge_patch(target, patch), patch)

\* manager.update_memory(result, P) after manager.update_memory(A, P)
UpdateMemoryAgain ==
    /\ pure.k = "merge"
    /\ \E same \in BOOLEAN :
         pure' = [k |-> "merge_again", target |-> pure.target, patch |-> pure.patch,
                  result |-> pure.result, same |-> same,
                  again |-> merge_patch_twice(pure.target, pure.patch, same)]
    /\ UNCHANGED <<dirExists, files, mem, clock, last, sessions>>

NextMergeTwice ==
    \/ UpdateMemory
    \/ UpdateMemoryAgain

SpecMergeTwice == InitMerge /\ [][NextMergeTwice]_vars

-----------------------------------------------------------------------------
(* Patches that move values and address whole sections *)

\* A JSON Patch move operation
MoveOp(from, segs) ==
    [op |-> "move", path |-> PathOf(segs), value |-> JNull, from |-> PathOf(from)]

\* The first workout moved into the chat history, the user_info record
\* restamped, the workout memory replaced as a whole
MoveWorkoutToChat ==
    MoveOp(<<"workout_memory", "recent_workouts", "0">>,
           <<"chat_history", "conversations", "-">>)
TouchUserInfo == Op("replace", <<"user_info", "updated_at">>, JIso(1))
ReplaceWorkoutMemory ==
    Op("replace", <<"workout_memory">>,
       JObj([user_id |-> UserId, last_updated |-> JIso(0),
             recent_workouts |-> JList(<<Obj1("workout_type", JStr("Ride"))>>)]))

MovingOps ==
    {AddWorkout, AddRide, AddWeight, MoveWorkoutToChat, TouchUserInfo, ReplaceWorkoutMemory}

MovingPatches == SeqsUpTo(MovingOps, MaxOps)

\* A user with stored records, or one with a user_info record only
InitMoving ==
    /\ dirExists = TRUE
    /\ files \in {SeededFiles, [NoFiles EXCEPT !["user_info"] = UserInfoRecord(0)]}
    /\ mem = None
    /\ clock = 0
    /\ last = NoLast
    /\ pure = NoPure
    /\ sessions = NoSessions

\* manager.apply_json_patch(memory, patch) with such a patch
ApplyMovingPatch ==
    /\ clock < MaxClock
    /\ mem # None
    /\ \E patch \in MovingPatches :
         /\ files' = apply_json_patch(dirExists, files, mem, patch, clock + 1).files
         /\ mem' = apply_json_patch(dirExists, files, mem, patch, clock + 1).mem
         /\ last' = Last("apply_json_patch", patch,
                         apply_json_patch(dirExists, files, mem, patch, clock + 1).names,
                         apply_json_patch(dirExists, files, mem, patch, clock + 1).ret,
                         clock + 1)
    /\ clock' = clock + 1
    /\ UNCHANGED <<dirExists, pure, sessions>>

NextMoving ==
    \/ LoadMemory
    \/ ApplyMovingPatch

SpecMoving == InitMoving /\ [][NextMoving]_vars

-----------------------------------------------------------------------------
(* Properties of apply_json_patch and _save_updated_components *)

Applied == last.op = "apply_json_patch" /\ last.patch # <<>>

\* The aggregate passed in has a user_info record with a user id, so a
\* save would write
HadUserInfo ==
    Truthy(Get(last.memBefore, "user_info"))
    /\ Truthy(Get(Get(last.memBefore, "user_info"), "user_id"))

\* The patch applies, and what it yields fails the schema
SchemaInvalid(doc, now) == ~IsErr(doc) /\ model_validate(doc, now) = Invalid

\* C1: whenever the patched dictionary fails OverallMemory validation,
\* apply_json_patch returns None, no component file is written (the effects
\* of the operations before the offending one included) and the aggregate
\* passed in is unchanged.
C1_InvalidPatchRejected ==
    (Applied /\ SchemaInvalid(JsonPatchApply(last.memBefore, last.patch), last.now))
    => /\ last.ret = None
       /\ files = last.filesBefore
       /\ mem = last.memBefore

\* A patch that adds a workout and then makes recent_workouts a string was
\* rejected, for a user whose components a save would have written
C1_Witness ==
    /\ Applied
    /\ last.patch = <<AddWorkout, BadReplace>>
    /\ HadUserInfo
    /\ last.dirBefore
    /\ SchemaInvalid(JsonPatchApply(last.memBefore, last.patch), last.now)
    /\ last.ret = None

IsPrefix(p, q) == Len(p) <= Len(q) /\ SubSeq(q, 1, Len(p)) = p

\* The i-th operation is a remove, replace or test whose path names nothing
\* in the aggregate passed in, and no operation before it puts something there
MissingPathOp(doc, patch, i) ==
    /\ patch[i].op \in {"remove", "replace", "test"}
    /\ PointerParts(patch[i].path).ok
    /\ IsErr(Resolve(doc, PointerParts(patch[i].path).parts))
    /\ \A j \in 1..(i - 1) :
          patch[j].op \in {"add", "move", "copy"} => ~IsPrefix(patch[j].path, patch[i].path)

\* C2: a remove, replace or test whose path does not exist, wherever it
\* stands in the list, makes apply_json_patch return None with every stored
\* file and the aggregate passed in as they were.
C2_MissingPathRejected ==
    (Applied /\ \E i \in 1..Len(last.patch) : MissingPathOp(last.memBefore, last.patch, i))
    => /\ last.ret = None
       /\ files = last.filesBefore
       /\ mem = last.memBefore

\* Each of the three kinds was rejected standing after a valid addition
C2_Witness ==
    /\ Applied
    /\ Len(last.patch) = 2
    /\ last.patch[1] = AddWorkout
    /\ last.patch[2] \in {RemoveMissing, ReplaceMissing, TestMissing}
    /\ MissingPathOp(last.memBefore, last.patch, 2)
    /\ HadUserInfo
    /\ last.dirBefore
    /\ last.ret = None

\* A component's content with its update timestamp set aside
Content(component, data) == json_serial(Stamp(component, data, 0))

\* C3: whenever apply_json_patch returns an aggregate, a load_memory issued
\* afterwards returns the components identified as modified with the
\* patched content, also for a lazily created user without user_info.
C3_PatchedComponentsPersisted ==
    (Applied /\ last.ret # None /\ last.dirBefore)
    => \A c \in last.names :
          Content(c, load_memory(dirExists, files, clock).o[c]) = Content(c, last.ret.o[c])

Saved == last.op = "save_updated_components"

\* C5: _save_updated_components(memory, names) leaves the stored record of
\* every component not in names as it was.
C5_OnlyNamedWritten ==
    Saved => \A f \in TopKeys \ last.names : files[f] = last.filesBefore[f]

\* With every record stored, names = {workout_memory, biometrics} rewrote
\* those two and not chat_history
C5_Witness ==
    /\ Saved
    /\ last.names = {"workout_memory", "biometrics"}
    /\ \A f \in TopKeys \ {"user_profile"} : last.filesBefore[f] # Absent
    /\ files["workout_memory"] # last.filesBefore["workout_memory"]
    /\ files["chat_history"] = last.filesBefore["chat_history"]

\* The stored record carries the instant of the save in one of its fields
HasStamp(data, now) == IsObj(data) /\ \E k \in DOMAIN data.o : data.o[k] = JIso(now)

\* C6: every component persisted by _save_updated_components carries a fresh
\* update timestamp taken at save time, for each of the six component names.
C6_EveryPersistedComponentStamped ==
    (Saved /\ last.dirBefore /\ Truthy(Get(mem, "user_info")))
    => \A c \in last.names : HasStamp(files[c], last.now)

-----------------------------------------------------------------------------
(* Properties of _identify_modified_components and _merge_patch *)

Slashes(path) == {i \in 1..Len(path) : path[i] = "/"}

Least(S) == CHOOSE i \in S : \A j \in S : i <= j

\* The text between the first "/" of a path and the next one (or the end)
SecondSegment(path) ==
    LET later == {j \in Slashes(path) : j > Least(Slashes(path))}
    IN  SubSeq(path, Least(Slashes(path)) + 1,
               IF later = {} THEN Len(path) ELSE Least(later) - 1)

Names(path, c) == Slashes(path) # {} /\ SecondSegment(path) = <<c>>

Identified == pure.k = "identify"

\* C4: _identify_modified_components returns exactly the known component
\* names that are the second path segment of some operation's path.
C4_IdentifiesSecondSegments ==
    Identified
    => pure.result =
         {c \in Components : \E i \in 1..Len(pure.patch) : Names(pure.patch[i].path, c)}

\* The two-operation example yields exactly {workout_memory, biometrics}
C4_Witness ==
    /\ Identified
    /\ Len(pure.patch) = 2
    /\ pure.patch[1].path = AddWorkout.path
    /\ pure.patch[2].path = AddWeight.path
    /\ pure.result = {"workout_memory", "biometrics"}

\* RFC 7386, MergePatch(Target, Patch)
RECURSIVE MergeRFC(_, _)
MergeRFC(target, patch) ==
    IF ~IsObj(patch) THEN patch
    ELSE LET t == IF IsObj(target) THEN target ELSE EmptyObj
         IN  JObj([k \in ((DOMAIN t.o) \ {j \in DOMAIN patch.o : patch.o[j] = JNull})
                         \cup {j \in DOMAIN patch.o : patch.o[j] # JNull} |->
                     IF k \in DOMAIN patch.o
                     THEN MergeRFC(Get(t, k), patch.o[k])
                     ELSE t.o[k]])

RECURSIVE NoNull(_)
NoNull(v) ==
    CASE v.t = "null" -> FALSE
      [] v.t = "obj" -> \A k \in DOMAIN v.o : NoNull(v.o[k])
      [] OTHER -> TRUE

Merged == pure.k = "merge"

\* C7: _merge_patch(A, P) removes the keys P sets to null, deep-merges the
\* keys whose value in P is an object, replaces the others wholesale and
\* leaves the rest of A; no null given in P remains anywhere in the result.
C7_MergePatchDropsNulls ==
    Merged => pure.result = MergeRFC(pure.target, pure.patch) /\ NoNull(pure.result)

-----------------------------------------------------------------------------
(* Properties of load_memory and save_memory *)

Loaded == last.op = "load_memory"

\* C8: save_memory of a loaded aggregate followed by load_memory gives back
\* an aggregate equal to the one saved.
C8_SaveLoadRoundTrip ==
    last.op = "save_memory" => load_memory(dirExists, files, clock) = mem

\* The model a component's record is validated against
ModelOf(c) ==
    CASE c = "user_info" -> "UserInfo"
      [] c = "user_profile" -> "UserProfile"
      [] c = "workout_memory" -> "WorkoutMemory"
      [] c = "activities" -> "Activities"
      [] c = "biometrics" -> "Biometrics"
      [] c = "workout_plan" -> "WorkoutPlan"
      [] c = "chat_history" -> "ChatHistory"

\* The stored record parses and is valid for its component's schema
StoredValid(c, data) ==
    data # Garbage /\ ValidateModel(ModelOf(c), WrapList(Obj1(c, data), c).o[c], 0) # Invalid

\* Everything the stored value holds is in the loaded one
RECURSIVE Holds(_, _)
Holds(loaded, stored) ==
    CASE IsObj(stored) ->
            /\ IsObj(loaded)
            /\ \A k \in DOMAIN stored.o : HasKey(loaded, k) /\ Holds(loaded.o[k], stored.o[k])
      [] IsList(stored) ->
            /\ IsList(loaded)
            /\ Len(loaded.l) = Len(stored.l)
            /\ \A i \in 1..Len(stored.l) : Holds(loaded.l[i], stored.l[i])
      [] OTHER -> loaded = stored

\* The aggregate of a user with nothing stored
DefaultAggregate(now) == model_validate(PassedOnly, now)

\* C9: whichever records are present, load_memory returns an aggregate with
\* each present component's stored content and the default-empty value for
\* each missing one.
C9_LoadPresentOrDefault ==
    (Loaded /\ \A c \in TopKeys : files[c] = Absent \/ (IsObj(files[c]) /\ StoredValid(c, files[c])))
    => /\ mem # None
       /\ \A c \in TopKeys :
            IF files[c] = Absent
            THEN mem.o[c] = DefaultAggregate(last.now).o[c]
            ELSE Holds(json_serial(mem.o[c]), files[c])

BadStored(fs) == {c \in TopKeys : fs[c] # Absent /\ ~StoredValid(c, fs[c])}

\* C10: with exactly one stored component invalid or unparsable, load_memory
\* returns what it returns without that record: the component default-empty,
\* every other one as stored.
C10_OneBadComponentIsolated ==
    (Loaded /\ dirExists /\ Cardinality(BadStored(files)) = 1)
    => \A bad \in BadStored(files) :
          mem = load_memory(dirExists, [files EXCEPT ![bad] = Absent], last.now)

\* The stored files without one record
Without(fs, c) == [fs EXCEPT ![c] = Absent]

\* What manager.save() leaves on a disk
SavedDisk(fs, now) == save_memory(TRUE, fs, load_memory(TRUE, fs, now))

\* The record c of fs is present, valid, and kept by a save
KeptBySave(fs, c, now) ==
    /\ fs[c] # Absent
    /\ StoredValid(c, fs[c])
    /\ Holds(SavedDisk(fs, now)[c], fs[c])

\* C11: a full save performed while one stored component is schema-invalid
\* leaves every schema-valid sibling's stored content as it was (siblings
\* that a save without the invalid record would keep).
C11_InvalidComponentSparesSiblings ==
    (last.op = "save" /\ last.dirBefore /\ Cardinality(BadStored(last.filesBefore)) = 1)
    => \A bad \in BadStored(last.filesBefore) : \A c \in TopKeys \ {bad} :
          KeptBySave(Without(last.filesBefore, bad), c, last.now)
          => Holds(files[c], last.filesBefore[c])

-----------------------------------------------------------------------------
(* Properties of concurrent sessions *)

AllDone == \A s \in Sessions : sessions[s].pc = "done"

\* The components a session's selective save writes
Writes(s) == {c \in TopKeys : sessions[s].towrite[c] # Absent}

\* The components a session's patch touches: those its paths lead into
Touches(s) ==
    {c \in Components :
        \E i \in 1..Len(sessions[s].patch) : Names(sessions[s].patch[i].path, c)}

C13_SameComponentOneWriterInFull ==
    AllDone
    => \A c \in Writes(1) \cap Writes(2) :
          files[c] \in {sessions[1].towrite[c], sessions[2].towrite[c]}

\* Both loaded the same state, and the stored component holds only the
\* second session's update: the first one's is lost
C13_Witness ==
    /\ AllDone
    /\ sessions[1].memory = sessions[2].memory
    /\ Writes(1) = {"workout_memory"}
    /\ Writes(2) = {"workout_memory"}
    /\ sessions[1].towrite["workout_memory"] # sessions[2].towrite["workout_memory"]
    /\ files["workout_memory"] = sessions[2].towrite["workout_memory"]

\* The aggregate of a user with nothing stored, field by field
EmptyAggregate(now) ==
    JObj([user_info |-> JNull,
          user_profile |-> JObj([user_id |-> UserId, name |-> JNull,
                                 created_at |-> JDt(now), updated_at |-> JDt(now)]),
          workout_memory |-> JObj([user_id |-> UserId, last_updated |-> JDt(now),
                                   recent_workouts |-> EmptyList]),
          activities |-> Obj1("activities", EmptyList),
          biometrics |-> Obj1("body_composition",
                              JObj([weight |-> JNull, weight_readings |-> EmptyList])),
          workout_plan |-> JObj([name |-> JNull, updated_at |-> JNull]),
          chat_history |-> JObj([conversations |-> EmptyList, last_interaction |-> JNull])])

Constructed(s) == sessions[s].pc \notin {"new", "checked"}

\* C14: when two constructions for a new user interleave between the
\* existence check and the directory creation, neither raises, the
\* directory exists afterwards and load_memory returns the default-empty
\* aggregate.
C14_CreationRaceTolerated ==
    \A s \in Sessions :
        /\ ~sessions[s].raised
        /\ Constructed(s) => dirExists
        /\ (Constructed(s) /\ files = NoFiles)
           => load_memory(dirExists, files, clock) = EmptyAggregate(clock)

\* Both constructions saw no directory, and both are through
C14_Witness ==
    /\ \A s \in Sessions : Constructed(s) /\ ~sessions[s].saw
    /\ dirExists
    /\ files = NoFiles

-----------------------------------------------------------------------------
(* Properties of failing writes *)

\* C15: when a write fails during save_memory, the selective save inside
\* apply_json_patch or save_json_file, the caller gets a failed-save signal
\* (not success), and the in-memory aggregate is intact.
C15_FailedWriteSurfaced ==
    (pure.k = "io" /\ pure.failed # {})
    => pure.signalled /\ mem = last.memBefore

-----------------------------------------------------------------------------
(* Properties of the temporal views *)

\* The lines of the rendered view of one kind and section
LinesOf(t, h) == SelectSeq(pure.view, LAMBDA l : l.t = t /\ l.h = h)

\* The lines of one metric in the body composition view
BLinesOf(t, m, h) ==
    SelectSeq(pure.view, LAMBDA l : l.t = t /\ l.m = m /\ l.h = h)

\* Whole days between an entry's date and the injected now
Age(date) == Date(pure.now) - Date(date.n)

\* year-Qn of the entry's own date
KeyOf(date) == <<Ymd(Date(date.n)).year, ((Ymd(Date(date.n)).month - 1) \div 3) + 1>>

\* The entries that carry a date, as an object or as its stored string
DatedEntries(entries, field) ==
    SelectSeq(entries, LAMBDA e : e[field].t \in {"dt", "iso"})

Aged(entries, field, low, high) ==
    SelectSeq(DatedEntries(entries, field),
              LAMBDA e : Age(e[field]) >= low /\ Age(e[field]) <= high)

AtKey(entries, field, key) ==
    SelectSeq(Aged(entries, field, 31, 365), LAMBDA e : KeyOf(e[field]) = key)

OnDay(entries, field, ymd) ==
    SelectSeq(entries, LAMBDA e : Ymd(Date(e[field].n)) = ymd)

Days(entries, field) == {Ymd(Date(e[field].n)) : e \in Range(entries)}

Keys(entries, field) == {KeyOf(e[field]) : e \in Range(Aged(entries, field, 31, 365))}

\* How many workouts the summary lines of a section show under a key
Times(h, key) ==
    Sum([i \in 1..Len(LinesOf("summary", h)) |->
            IF LinesOf("summary", h)[i].x.key = key
            THEN LinesOf("summary", h)[i].x.times ELSE 0])

\* How many readings the statistics of a metric's section cover under a key
Covered(m, h, key) ==
    Sum([i \in 1..Len(BLinesOf("summary", m, h)) |->
            IF BLinesOf("summary", m, h)[i].x.key = key
            THEN BLinesOf("summary", m, h)[i].x.stats.count ELSE 0])

WorkoutsLand(ws) ==
    /\ \A ymd \in Days(DatedEntries(ws, "start_date"), "start_date") :
          Len(SelectSeq(LinesOf("item", "last_30_days"), LAMBDA l : l.x.date = ymd))
          = Len(OnDay(Aged(ws, "start_date", -1000, 30), "start_date", ymd))
    /\ \A key \in Keys(ws, "start_date") \cup {l.x : l \in Range(LinesOf("key", "last_year_quarterly"))} :
          Times("last_year_quarterly", key) = Len(AtKey(ws, "start_date", key))
    /\ Times("second_year", <<>>) = Len(Aged(ws, "start_date", 366, 730))

ReadingsLand(m, rs) ==
    /\ \A ymd \in Days(DatedEntries(rs, "date"), "date") :
          Len(SelectSeq(BLinesOf("item", m, "last_30_days"), LAMBDA l : l.x.date = ymd))
          = Len(OnDay(Aged(rs, "date", -1000, 30), "date", ymd))
    /\ \A key \in Keys(rs, "date") \cup {l.x.key : l \in Range(BLinesOf("summary", m, "last_year_quarterly"))} :
          Covered(m, "last_year_quarterly", key) = Len(AtKey(rs, "date", key))
    /\ Covered(m, "second_year", <<>>) = Len(Aged(rs, "date", 366, 730))

\* C16: every dated workout and biometric reading lands in exactly one
\* horizon of the view by its age in whole days at the injected now: up to 30
\* days listed in recent, 31..365 counted under the key year-Qn of its own
\* date, 366..730 counted in second-year; older than 730 days it is absent
\* from the view, and the view leaves the stored entries as they are.
C16_EntriesLandInOneHorizon ==
    /\ pure.k = "workouts" => WorkoutsLand(pure.input) /\ pure.after = pure.input
    /\ pure.k = "biometrics"
       => /\ \A m \in DOMAIN Metrics : ReadingsLand(m, pure.input[Metrics[m]])
          /\ pure.after = pure.input

\* The same for workouts alone
WorkoutsLandInOneHorizon == pure.k = "workouts" => WorkoutsLand(pure.input)

\* The calendar days of the rendered history that have steps and an age in
\* low..high
ActiveDaysAged(low, high) ==
    {Date(a.date.n) : a \in {e \in Range(pure.input) :
        e.steps > 0 /\ Age(e.date) >= low /\ Age(e.date) <= high}}

\* The "Days with Data" a section of the activity view shows (0: none shown)
DaysShown(h) ==
    Sum([i \in 1..Len(LinesOf("stat", h)) |->
            IF LinesOf("stat", h)[i].x[1] = "Days with Data"
            THEN LinesOf("stat", h)[i].x[2] ELSE 0])

Sections == {l.h : l \in Range(SelectSeq(pure.view, LAMBDA l : l.t = "header"))}

\* C17 as stated: activity days are bucketed like workouts, each day in
\* exactly one horizon: up to 30 days in recent, 31..365 in recent-year,
\* 366..730 in second-year, older dropped.
C17_ActivityDaysBucketedLikeWorkouts ==
    pure.k = "activities"
    => /\ DaysShown("last_30_days") = Cardinality(ActiveDaysAged(-1000, 30))
       /\ DaysShown("last_7_days") + DaysShown("last_30_days") + DaysShown("last_365_days")
          = Cardinality(ActiveDaysAged(-1000, 730))

\* C17, amended: activity days are counted in three nested rolling windows:
\* a day with steps counts in the 7-day window iff its age is at most 6
\* days, in the 30-day window iff at most 29, in the 365-day window iff at
\* most 364 (so a recent day counts in every window that contains it); the
\* view has no quarter and no second-year section, and a day aged 365 days
\* or more is counted nowhere.
C17_ActivityDaysInRollingWindows ==
    pure.k = "activities"
    => /\ DaysShown("last_7_days") = Cardinality(ActiveDaysAged(-1000, 6))
       /\ DaysShown("last_30_days") = Cardinality(ActiveDaysAged(-1000, 29))
       /\ DaysShown("last_365_days") = Cardinality(ActiveDaysAged(-1000, 364))
       /\ Sections \subseteq {"last_7_days", "last_30_days", "last_365_days"}

\* A history with a day at the edge of a window and a day beyond the last
\* window was rendered
C17_Witness ==
    /\ pure.k = "activities"
    /\ ActiveDaysAged(7, 7) # {} \/ ActiveDaysAged(30, 30) # {}
    /\ ActiveDaysAged(365, 1000) # {}
    /\ Len(pure.view) > 2

\* A horizon's section is in the view with its heading; when it shows no
\* entry it holds a "no data" line
Rendered(h) ==
    /\ LinesOf("header", h) # <<>>
    /\ (LinesOf("item", h) = <<>> /\ LinesOf("summary", h) = <<>>
        /\ LinesOf("stat", h) = <<>>) => LinesOf("nodata", h) # <<>>

MetricRendered(m, h) ==
    /\ BLinesOf("header", m, h) # <<>>
    /\ (BLinesOf("item", m, h) = <<>> /\ BLinesOf("summary", m, h) = <<>>)
       => BLinesOf("nodata", m, h) # <<>>

Horizons == {"last_30_days", "last_year_quarterly", "second_year"}

\* C18: for workouts, activity days and each biometric metric, every horizon
\* has its section in the rendered view, with an explicit "no data" line when
\* it holds no entry, whatever the other horizons hold and also when the
\* entity has no entries at all.
C18_EmptyHorizonsRendered ==
    /\ pure.k = "workouts" => \A h \in Horizons : Rendered(h)
    /\ pure.k = "activities"
       => \A h \in {"last_7_days", "last_30_days", "last_365_days"} : Rendered(h)
    /\ pure.k = "biometrics" => \A m \in DOMAIN Metrics : \A h \in Horizons :
                                   MetricRendered(m, h)

\* The same for histories with at least one workout, or one day with steps
EmptyHorizonsRenderedWhenAnyEntry ==
    /\ (pure.k = "workouts" /\ pure.input # <<>>) => \A h \in Horizons : Rendered(h)
    /\ (pure.k = "activities" /\ ActiveDaysAged(-1000, 1000) # {})
       => \A h \in {"last_7_days", "last_30_days", "last_365_days"} : Rendered(h)

\* A body composition record whose only reading is a recent weight was
\* rendered
C18_Witness ==
    /\ pure.k = "biometrics"
    /\ BLinesOf("item", "Weight", "last_30_days") # <<>>
    /\ pure.input.body_fat_percentage_readings = <<>>

\* A stored body-fat value as a percentage, by the threshold 1.0 on the
\* value itself
Percent(v) == IF v < 1000 THEN v * 100 ELSE v

ValuesOf(rs) == [i \in 1..Len(rs) |-> Percent(rs[i].value)]

BodyFat == pure.input.body_fat_percentage_readings

\* The statistics line of a bucket is computed over the rescaled values
StatsPerValue(line, rs) == line.x.stats = Stats(ValuesOf(rs), "%")

\* C19: body fat is displayed with the threshold 1.0 applied to each value:
\* in the listed recent readings and in the quarter and annual statistics a
\* stored value below 1.0 contributes value*100 and a value of 1.0 or more
\* contributes itself, also in a bucket that mixes both; 0.182 and 18.2 both
\* show as 18.2%.
C19_BodyFatPerValueThreshold ==
    pure.k = "biometrics"
    => /\ \A l \in Range(BLinesOf("item", "Body Fat %", "last_30_days")) :
             /\ \E r \in Range(BodyFat) : l.x.value = Tenths(Percent(r.value), 1)
             /\ l.x.value = 182 /\ l.x.unit = "%"
       /\ \A l \in Range(BLinesOf("summary", "Body Fat %", "last_year_quarterly")) :
             StatsPerValue(l, AtKey(BodyFat, "date", l.x.key))
       /\ \A l \in Range(BLinesOf("summary", "Body Fat %", "second_year")) :
             StatsPerValue(l, Aged(BodyFat, "date", 366, 730))

\* The listed recent readings alone
BodyFatItemsPerValue ==
    pure.k = "biometrics"
    => \A l \in Range(BLinesOf("item", "Body Fat %", "last_30_days")) :
          l.x.value = 182 /\ l.x.unit = "%"

\* A quarter holding a fraction and a percentage was summarised
C19_Witness ==
    /\ pure.k = "biometrics"
    /\ \E l \in Range(BLinesOf("summary", "Body Fat %", "last_year_quarterly")) :
          {r.value : r \in Range(AtKey(BodyFat, "date", l.x.key))} = {182, 18200}

\* The entries that count: with steps, and the newest such entry of their
\* calendar day (the earlier one in the list when two carry the same instant)
Contributes(i) ==
    /\ pure.input[i].steps > 0
    /\ \A j \in 1..Len(pure.input) :
          (pure.input[j].steps > 0
           /\ Date(pure.input[j].date.n) = Date(pure.input[i].date.n))
          => \/ pure.input[j].date.n < pure.input[i].date.n
             \/ (pure.input[j].date.n = pure.input[i].date.n /\ j >= i)

Contributors(days) ==
    {i \in 1..Len(pure.input) : Contributes(i) /\ Age(pure.input[i].date) < days}

RECURSIVE StepsOf(_)
StepsOf(is) ==
    IF is = {} THEN 0
    ELSE LET i == CHOOSE j \in is : TRUE
         IN  pure.input[i].steps + StepsOf(is \ {i})

\* The number a section of the activity view shows under a label
Shown(h, label) ==
    {l.x[2] : l \in Range(SelectSeq(LinesOf("stat", h), LAMBDA l : l.x[1] = label))}

WindowShows(h, days, label) ==
    IF Contributors(days) = {} THEN LinesOf("stat", h) = <<>>
    ELSE /\ Shown(h, "Days with Data") = {Cardinality(Contributors(days))}
         /\ Shown(h, label)
            = {StepsOf(Contributors(days)) \div Cardinality(Contributors(days))}

\* C20: in the activity view an entry with zero steps enters no statistic,
\* and of the entries of one calendar day only the first met in newest-first
\* order counts: each window's count and mean steps are those of at most one
\* entry per calendar day.
C20_OneEntryPerDayNoZeroDays ==
    pure.k = "activities"
    => /\ WindowShows("last_7_days", 7, "Steps/Day")
       /\ WindowShows("last_30_days", 30, "Avg Steps/Day")
       /\ WindowShows("last_365_days", 365, "Avg Steps/Day")

\* A day with two entries of different step counts at different times, or
\* with a zero-step entry beside one with steps, was rendered
C20_Witness ==
    /\ pure.k = "activities"
    /\ Shown("last_7_days", "Days with Data") = {1}
    /\ \E i, j \in 1..Len(pure.input) :
          /\ Date(pure.input[i].date.n) = Date(pure.input[j].date.n)
          /\ pure.input[i].date.n > pure.input[j].date.n
          /\ pure.input[i].steps # pure.input[j].steps
          /\ pure.input[i].steps > 0 /\ pure.input[j].steps > 0

-----------------------------------------------------------------------------
(* Properties of the compact projections *)

ProfileGoals == Flatten([i \in 1..Len(Categories) |-> pure.input.goals[Categories[i]]])

CompactGoals ==
    IF pure.compact.user_profile.goals = None THEN {}
    ELSE UNION {Range(pure.compact.user_profile.goals[c]) : c \in Range(Categories)}

\* What the view lists: goal descriptions, and conditions by name and status
GoalItems ==
    {l.x : l \in Range(SelectSeq(pure.view,
                LAMBDA l : l.t = "item" /\ l.h \in Range(Categories)))}

ConditionItems ==
    {l.x : l \in Range(SelectSeq(pure.view,
                LAMBDA l : l.t = "item" /\ l.h \notin Range(Categories)))}

Placeholder(c) == c.status = "template" \/ c.name = ""

\* C21: no goal or medical condition whose status is 'template', and no
\* condition with a blank name, is in the compact projection or in the
\* rendered view; the stored profile keeps them.
C21_TemplatesNeverExposed ==
    pure.k = "profile"
    => /\ \A g \in Range(ProfileGoals) :
             g.status = "template"
             => g.description \notin CompactGoals /\ g.description \notin GoalItems
       /\ \A c \in Range(pure.compact.medical_history.conditions) : ~Placeholder(c)
       /\ \A c \in Range(pure.input.medical_history.conditions) :
             Placeholder(c) => [name |-> c.name, status |-> c.status] \notin ConditionItems
       /\ pure.after = pure.input

\* The same for the medical conditions and the rendered view alone
TemplatesFilteredExceptCompactGoals ==
    pure.k = "profile"
    => /\ \A g \in Range(ProfileGoals) :
             g.status = "template" => g.description \notin GoalItems
       /\ \A c \in Range(pure.compact.medical_history.conditions) : ~Placeholder(c)
       /\ \A c \in Range(pure.input.medical_history.conditions) :
             Placeholder(c) => [name |-> c.name, status |-> c.status] \notin ConditionItems

\* A profile with a template goal was compacted
C21_Witness ==
    /\ pure.k = "profile"
    /\ \E g \in Range(ProfileGoals) : g.status = "template"

\* C22: when filtering template and blank-name entries empties a condition
\* list, the compact list holds a single empty placeholder entry: the
\* compact condition list is never empty.
C22_EmptiedListHoldsPlaceholder ==
    pure.k = "profile"
    => /\ pure.compact.medical_history.conditions # <<>>
       /\ (\A c \in Range(pure.input.medical_history.conditions) : Placeholder(c))
          => Len(pure.compact.medical_history.conditions) = 1

\* A condition list holding only a template entry was compacted
C22_Witness ==
    /\ pure.k = "profile"
    /\ pure.input.medical_history.conditions # <<>>
    /\ \A c \in Range(pure.input.medical_history.conditions) : Placeholder(c)

\* C23: ChatHistory.to_compact keeps the most recent 10 turns: of a history
\* of n turns exactly the last min(10, n), in their order, and the full
\* history is unchanged.
C23_CompactChatKeepsLastTen ==
    pure.k = "chat"
    => LET n == Len(pure.input.conversations)
           kept == IF n < 10 THEN n ELSE 10
       IN  /\ Len(pure.compact.conversations) = kept
           /\ \A i \in 1..kept :
                 pure.compact.conversations[i] = pure.input.conversations[n - kept + i]
           /\ pure.after = pure.input

\* A history of more than 10 turns was compacted
C23_Witness == pure.k = "chat" /\ Len(pure.input.conversations) > 10

\* C24: OverallMemory.to_compact and get_compact_memory return a compact
\* aggregate for every schema-valid aggregate, the default-empty one
\* included, converting every component without failing.
C24_EveryAggregateHasCompact ==
    pure.k = "store"
    => /\ pure.compact # Raised
       /\ \A c \in {"workout_memory", "activities", "biometrics", "workout_plan",
                    "chat_history"} : IsObj(pure.compact.o[c])

\* The compact projection of the default-empty aggregate was asked for
C24_Witness == pure.k = "store" /\ pure.input = NoFiles

-----------------------------------------------------------------------------
(* Properties of the upload handlers *)

\* The stored history of a field of a section of biometrics.json
StoredHistory(name, field) ==
    IF IsObj(files["biometrics"]) /\ HasKey(files["biometrics"], name)
       /\ HasKey(files["biometrics"].o[name], field)
    THEN Get(files["biometrics"].o[name].o[field], "history").l
    ELSE <<>>

\* C25: after any sequence of biometric uploads the stored readings of a
\* metric hold exactly one reading with the timestamp of the last upload,
\* carrying the value last uploaded, and no two readings share a timestamp.
C25_OneReadingPerTimestamp ==
    (pure.k = "upload" /\ pure.op = "upload_biometrics")
    => LET history == StoredHistory(pure.request.section, pure.request.field)
       IN  /\ \A i, j \in 1..Len(history) :
                 Get(history[i], "timestamp") = Get(history[j], "timestamp") => i = j
           /\ \E i \in 1..Len(history) :
                 /\ Get(history[i], "timestamp") = JIso(pure.request.timestamp)
                 /\ Get(history[i], "value") = JNum(pure.request.value)

\* A biometric upload reached a store that had received an upload before
C25_Witness ==
    /\ pure.k = "upload" /\ pure.op = "upload_biometrics"
    /\ last.filesBefore["biometrics"] # Absent

\* C30: after any sequence of upload_activities requests from an empty store
\* the activity list the handler stores holds at most one entry per calendar
\* date and is ordered by date newest first, also when one request carries
\* two entries for a date not stored before.
C30_OneActivityPerDateNewestFirst ==
    (pure.k = "upload" /\ pure.op = "upload_activities")
    => /\ \A i, j \in 1..Len(pure.data) :
             DateOf(pure.data[i]) = DateOf(pure.data[j]) => i = j
       /\ \A i, j \in 1..Len(pure.data) :
             i < j => Get(pure.data[i], "date").n >= Get(pure.data[j], "date").n

\* A request carried two entries for one date
C30_Witness ==
    /\ pure.k = "upload" /\ pure.op = "upload_activities"
    /\ \E i, j \in 1..Len(pure.request) :
          i # j /\ DateOf(pure.request[i]) = DateOf(pure.request[j])

-----------------------------------------------------------------------------
(* Properties of the workout labels and of the legacy list shape *)

\* The workouts of a workout_memory record, none when it holds no list of
\* workout objects
WorkoutsOfRecord(v) ==
    IF IsObj(v) /\ HasKey(v, "recent_workouts") /\ IsList(v.o["recent_workouts"])
       /\ \A i \in 1..Len(v.o["recent_workouts"].l) : IsObj(v.o["recent_workouts"].l[i])
    THEN v.o["recent_workouts"].l
    ELSE <<>>

\* The original_type of every stored workout that has one is the
\* original_type of the workout at its place in the loaded aggregate
OriginalTypesKept(stored, loaded) ==
    \A i \in 1..Len(stored) :
        (HasKey(stored[i], "original_type") /\ stored[i].o["original_type"] # JNull)
        => /\ i <= Len(loaded)
           /\ Get(loaded[i], "original_type") = stored[i].o["original_type"]

\* C26: the original_type a stored workout carries is not changed by
\* load_memory, also when its workout_type holds a different value.
C26_OriginalTypePreserved ==
    (last.op = "load_memory" /\ mem # None)
    => OriginalTypesKept(WorkoutsOfRecord(last.filesBefore["workout_memory"]),
                         WorkoutsOfRecord(mem.o["workout_memory"]))

\* A stored workout whose original_type differs from its workout_type was
\* loaded
C26_Witness ==
    /\ last.op = "load_memory"
    /\ \E i \in 1..Len(WorkoutsOfRecord(files["workout_memory"])) :
          /\ HasKey(WorkoutsOfRecord(files["workout_memory"])[i], "original_type")
          /\ Get(WorkoutsOfRecord(files["workout_memory"])[i], "original_type")
                # Get(WorkoutsOfRecord(files["workout_memory"])[i], "workout_type")
\* The lists a loaded component holds, as they are written to a file
ListsOf(component) ==
    {json_serial(component.o[k]) : k \in {j \in DOMAIN component.o : IsList(component.o[j])}}

\* C27: a component stored as a bare list (activities, workout_memory,
\* biometrics, chat_history, workout_plan) loads as an object with a list
\* that holds exactly the entries of the bare list.
C27_BareListEntriesKept ==
    (last.op = "load_memory" /\ mem # None)
    => \A c \in Range(LegacyListKeys) :
          IsList(last.filesBefore[c]) => last.filesBefore[c] \in ListsOf(mem.o[c])

\* Activities stored as a bare list were loaded with their entries
C27_Witness ==
    /\ last.op = "load_memory" /\ mem # None
    /\ IsList(last.filesBefore["activities"])
    /\ last.filesBefore["activities"] \in ListsOf(mem.o["activities"])

\* The bare list of activities alone loads with its entries
ActivitiesBareListKept ==
    (last.op = "load_memory" /\ mem # None /\ IsList(last.filesBefore["activities"]))
    => last.filesBefore["activities"] \in ListsOf(mem.o["activities"])

-----------------------------------------------------------------------------
(* Properties of repeated and moving patches *)

\* C29: merge patch is idempotent: applying a patch to the result of
\* applying it gives that result again, also for a patch holding a nested
\* object with a null member at a key the target lacks or holds as a
\* non-object.
C29_MergePatchIdempotent ==
    pure.k = "merge_again" => pure.again = pure.result

\* A patch with a nested object holding a null, at a key the target holds no
\* object at, was applied twice
C29_Witness ==
    /\ pure.k = "merge_again"
    /\ \E k \in DOMAIN pure.patch.o :
          /\ IsObj(pure.patch.o[k])
          /\ ~IsObj(Get(pure.target, k))
          /\ \E j \in DOMAIN pure.patch.o[k].o : pure.patch.o[k].o[j] = JNull

\* A patch without nested objects, applied twice, gives the result of
\* applying it once
FlatMergePatchIdempotent ==
    (pure.k = "merge_again" /\ \A k \in DOMAIN pure.patch.o : ~IsObj(pure.patch.o[k]))
    => pure.again = pure.result

\* The sections of the aggregate that a patch changed
ChangedSections == {c \in TopKeys : last.ret.o[c] # last.memBefore.o[c]}

\* The stored record of a section is the returned section as the selective
\* save writes it
Persisted(c) == files[c] = json_serial(Stamp(c, last.ret.o[c], last.now))

\* C28: after a successful JSON patch every top-level section that differs
\* between the aggregate passed in and the aggregate returned is among the
\* components identified as modified and has been written, also the source
\* component of a move from another component and a section addressed as a
\* whole.
C28_EveryChangePersisted ==
    (Applied /\ last.ret # None)
    => \A c \in ChangedSections : c \in last.names /\ Persisted(c)

\* A workout was moved from the workout memory into the chat history
C28_Witness ==
    /\ Applied /\ last.ret # None
    /\ last.patch = <<MoveWorkoutToChat>>
    /\ "workout_memory" \in ChangedSections

\* Every section changed by a patch without moves that leaves user_info
\* alone is identified and written, a component replaced as a whole included
ChangesAtPathPersisted ==
    (Applied /\ last.ret # None
        /\ \A i \in 1..Len(last.patch) : last.patch[i] \in MovingOps \ {MoveWorkoutToChat, TouchUserInfo})
    => \A c \in ChangedSections : c \in last.names /\ Persisted(c)

====
